---- MODULE Spec2Model ----
(***************************************************************************)
(* State-machine model of the analytical core of hypebiscus-alpha:         *)
(*   - the wallet profiler (categorizeWallet, analyzeExpertise) of         *)
(*     lib/wallet-analyzer (src/unnamed/part_014),                         *)
(*   - the intent detector and data-fetch planner of                       *)
(*     src/lib/intent-detector.ts.                                         *)
(* Every run draws one input in its initial state and then applies the     *)
(* function under study; pc records the position of that call.             *)
(***************************************************************************)
EXTENDS Integers, Sequences, FiniteSets, TLC

VARIABLES
    pc,         \* position of the modelled call
    data,       \* argument of categorizeWallet
    profile,    \* WalletProfile returned by categorizeWallet
    holdings,   \* argument of analyzeExpertise
    expertise,  \* list returned by analyzeExpertise
    query,      \* argument of detectIntent, a sequence of characters
    locals,     \* local variables of detectIntent when it returns
    intent,     \* DetectedIntent returned by detectIntent
    fetches,    \* list returned by getSuggestedDataFetches
    upstream,   \* address and outcomes of the six requests of the GET handler
    results,    \* values of the six requests, the argument of calculateWalletMetrics
    analysis,   \* analysis returned by calculateWalletMetrics
    response,   \* response of the GET handler
    chat,       \* state of the EnhancedChat component
    inflight,   \* panel fetches, chat requests and timers EnhancedChat has pending
    posted,     \* bodies of the chat requests EnhancedChat has posted
    streamRequest,\* the request POST /api/claude/stream serves and what its calls will do
    stream,     \* the ReadableStream of the streaming response
    chatHistory \* rows saved by saveChatMessage

vars == <<pc, data, profile, holdings, expertise, query, locals, intent, fetches,
          upstream, results, analysis, response,
          chat, inflight, posted,
          streamRequest, stream, chatHistory>>

(***************************************************************************)
(* Bounds of the model.                                                    *)
(***************************************************************************)
\* numeric inputs are drawn within Delta of every threshold of the code
Delta == 1
\* longest holdings list handed to analyzeExpertise
MaxHoldings == 4
\* most phrases in a query handed to detectIntent
MaxPhrases == 2

Near(c) == { c + d : d \in (0 - Delta)..Delta }

(***************************************************************************)
(* Wallet profiler: categorizeWallet                                       *)
(***************************************************************************)
WhaleThreshold == 1000000
BotMaxDiversification == 30
BotMinTransactions == 100
DegenMaxDiversification == 40
HodlerMaxTransactions == 20
SmartMinDiversification == 60
SmartMinTransactions == 30
AggressiveMaxDiversification == 40
ConservativeMinDiversification == 70

WalletCategory == {"Whale", "Smart Trader", "Degen", "HODLer", "Bot", "Casual"}
RiskProfile == {"Conservative", "Moderate", "Aggressive"}

\* the labels analyzeTransactions produces
TradingFrequencies == {"Very Active", "Active", "Moderate", "Passive", "Unknown"}

\* (portfolioValue / 1_000_000).toFixed(2), as a number of hundredths
ToFixed2Millions(v) == (v + 5000) \div 10000

\* the conditions of the rule ladder, in the order of the code
IsWhale(d) == d.portfolioValue > WhaleThreshold

IsBot(d) ==
    /\ d.tradingFrequency = "Very Active"
    /\ d.diversificationScore < BotMaxDiversification
    /\ d.totalTransactions > BotMinTransactions

IsDegenMutNoPassiveTest(d) == d.diversificationScore < DegenMaxDiversification

IsDegen(d) ==
    /\ d.diversificationScore < DegenMaxDiversification
    /\ d.tradingFrequency # "Passive"

IsHodler(d) ==
    /\ d.tradingFrequency = "Passive"
    /\ d.totalTransactions < HodlerMaxTransactions

\* a smart-trader rule that does not look at the number of transactions
IsSmartTraderMutNoActivityTest(d) == d.diversificationScore > SmartMinDiversification

IsSmartTrader(d) ==
    /\ d.diversificationScore > SmartMinDiversification
    /\ d.totalTransactions > SmartMinTransactions

Verdict(category, confidence, text, fixed2) ==
    [category |-> category, confidence |-> confidence,
     reasoning |-> [text |-> text, fixed2 |-> fixed2]]

WhaleVerdict(d) ==
    Verdict("Whale", 90, "Large portfolio value of $%M indicates whale status.",
            ToFixed2Millions(d.portfolioValue))
BotVerdict ==
    Verdict("Bot", 75,
            "Very high trading frequency with low diversification suggests automated trading.", 0)
DegenVerdict ==
    Verdict("Degen", 70,
            "Low diversification with active trading suggests high-risk degen behavior.", 0)
\* a HODLer verdict that leaves confidence and reasoning at their initial values
HodlerVerdictMutSilent == Verdict("HODLer", 0, "", 0)
HodlerVerdict ==
    Verdict("HODLer", 80, "Low trading frequency indicates long-term holding strategy.", 0)
SmartTraderVerdict ==
    Verdict("Smart Trader", 75,
            "Good diversification with consistent trading activity suggests smart trading strategy.", 0)
CasualVerdict == Verdict("Casual", 0, "", 0)

\* a ladder that tests the bot rule before the whale rule
CategoryMutBotBeforeWhale(d) ==
    IF IsBot(d) THEN BotVerdict
    ELSE IF IsWhale(d) THEN WhaleVerdict(d)
    ELSE IF IsDegen(d) THEN DegenVerdict
    ELSE IF IsHodler(d) THEN HodlerVerdict
    ELSE IF IsSmartTrader(d) THEN SmartTraderVerdict
    ELSE CasualVerdict

\* a ladder that tests the degen rule before the bot rule
CategoryMutDegenBeforeBot(d) ==
    IF IsWhale(d) THEN WhaleVerdict(d)
    ELSE IF IsDegen(d) THEN DegenVerdict
    ELSE IF IsBot(d) THEN BotVerdict
    ELSE IF IsHodler(d) THEN HodlerVerdict
    ELSE IF IsSmartTrader(d) THEN SmartTraderVerdict
    ELSE CasualVerdict

\* the rule ladder: the first rule that matches gives category, confidence and reasoning
CategoryRules(d) ==
    IF IsWhale(d) THEN WhaleVerdict(d)
    ELSE IF IsBot(d) THEN BotVerdict
    ELSE IF IsDegen(d) THEN DegenVerdict
    ELSE IF IsHodler(d) THEN HodlerVerdict
    ELSE IF IsSmartTrader(d) THEN SmartTraderVerdict
    ELSE CasualVerdict

\* the risk profile: a second ladder over the score and the category
RiskMutConservativeFirst(score, category) ==
    IF score > ConservativeMinDiversification \/ category = "HODLer" THEN "Conservative"
    ELSE IF score < AggressiveMaxDiversification \/ category = "Degen" THEN "Aggressive"
    ELSE "Moderate"

\* a ladder whose Aggressive test uses the bot threshold and ignores the category
RiskMutBotThreshold(score, category) ==
    IF score < BotMaxDiversification THEN "Aggressive"
    ELSE IF score > ConservativeMinDiversification \/ category = "HODLer" THEN "Conservative"
    ELSE "Moderate"

RiskRules(score, category) ==
    IF score < AggressiveMaxDiversification \/ category = "Degen" THEN "Aggressive"
    ELSE IF score > ConservativeMinDiversification \/ category = "HODLer" THEN "Conservative"
    ELSE "Moderate"

categorizeWallet(d) ==
    LET c == CategoryRules(d)
    IN  [category    |-> c.category,
         expertise   |-> <<>>,
         riskProfile |-> RiskRules(d.diversificationScore, c.category),
         confidence  |-> c.confidence,
         reasoning   |-> c.reasoning]

(***************************************************************************)
(* Inputs of the profiler                                                  *)
(***************************************************************************)
PortfolioValues == Near(WhaleThreshold) \cup {0, 50000}
TransactionCounts ==
    (Near(HodlerMaxTransactions) \cup Near(SmartMinTransactions)
        \cup Near(BotMinTransactions) \cup {0, 5}) \cap Nat
DiversificationScores ==
    Near(BotMaxDiversification) \cup Near(DegenMaxDiversification)
        \cup Near(SmartMinDiversification) \cup Near(ConservativeMinDiversification)
        \cup {0, 80, 100}
HoldingLists == { <<>>, <<[symbol |-> "SOL", value |-> 4, categories |-> <<"DeFi">>]>> }
ActivityLists == { <<>>, <<[transfers |-> <<[value |-> 10]>>]>> }

WalletData ==
    [portfolioValue : PortfolioValues,
     totalTransactions : TransactionCounts,
     tradingFrequency : TradingFrequencies,
     diversificationScore : DiversificationScores,
     topHoldings : HoldingLists,
     recentActivity : ActivityLists]

NoData ==
    [portfolioValue |-> 0, totalTransactions |-> 0, tradingFrequency |-> "Unknown",
     diversificationScore |-> 0, topHoldings |-> <<>>, recentActivity |-> <<>>]
NoProfile ==
    [category |-> "none", expertise |-> <<>>, riskProfile |-> "none", confidence |-> 0,
     reasoning |-> [text |-> "", fixed2 |-> 0]]

(***************************************************************************)
(* Wallet profiler: analyzeExpertise                                       *)
(***************************************************************************)
ExpertiseMinPercent == 20
ExpertiseMinCount == 3
ExpertiseTopN == 3

RECURSIVE SumValues(_)
SumValues(hs) == IF hs = <<>> THEN 0 ELSE hs[1].value + SumValues(Tail(hs))

\* the (category, value) pairs in the order the two nested forEach loops visit them
RECURSIVE Mentions(_)
Mentions(hs) ==
    IF hs = <<>> THEN <<>>
    ELSE [i \in 1..Len(hs[1].categories) |-> [cat |-> hs[1].categories[i], value |-> hs[1].value]]
         \o Mentions(Tail(hs))

\* the keys of the two maps, in insertion order
RECURSIVE KeysInOrder(_, _)
KeysInOrder(ms, seen) ==
    IF ms = <<>> THEN <<>>
    ELSE IF ms[1].cat \in seen THEN KeysInOrder(Tail(ms), seen)
    ELSE <<ms[1].cat>> \o KeysInOrder(Tail(ms), seen \cup {ms[1].cat})

RECURSIVE CountOf(_, _)
CountOf(ms, c) ==
    IF ms = <<>> THEN 0
    ELSE (IF ms[1].cat = c THEN 1 ELSE 0) + CountOf(Tail(ms), c)

RECURSIVE ValueOf(_, _)
ValueOf(ms, c) ==
    IF ms = <<>> THEN 0
    ELSE (IF ms[1].cat = c THEN ms[1].value ELSE 0) + ValueOf(Tail(ms), c)

\* (value / totalValue) * 100 > 20 on numbers >= 0; 0 / 0 is NaN, which is not > 20
OverPercentMutAtLeast(value, totalValue) ==
    value * 100 >= ExpertiseMinPercent * totalValue /\ totalValue > 0

OverPercent(value, totalValue) == value * 100 > ExpertiseMinPercent * totalValue

Qualifies(hs, c) ==
    \/ OverPercent(ValueOf(Mentions(hs), c), SumValues(hs))
    \/ CountOf(Mentions(hs), c) >= ExpertiseMinCount

RECURSIVE SelectSeqBy(_, _)
SelectSeqBy(seq, hs) ==
    IF seq = <<>> THEN <<>>
    ELSE (IF Qualifies(hs, seq[1]) THEN <<seq[1]>> ELSE <<>>) \o SelectSeqBy(Tail(seq), hs)

\* Array.prototype.sort((a, b) => b[1] - a[1]): stable, descending by value
RECURSIVE InsertDesc(_, _, _)
InsertDesc(sorted, c, ms) ==
    IF sorted = <<>> THEN <<c>>
    ELSE IF ValueOf(ms, c) > ValueOf(ms, sorted[1]) THEN <<c>> \o sorted
    ELSE <<sorted[1]>> \o InsertDesc(Tail(sorted), c, ms)

RECURSIVE SortDesc(_, _)
SortDesc(seq, ms) ==
    IF seq = <<>> THEN <<>>
    ELSE InsertDesc(SortDesc(SubSeq(seq, 1, Len(seq) - 1), ms), seq[Len(seq)], ms)

Slice(seq, n) == SubSeq(seq, 1, IF Len(seq) < n THEN Len(seq) ELSE n)

\* the function without its top-3 fallback
analyzeExpertiseMutNoFallback(hs) ==
    LET found == SelectSeqBy(KeysInOrder(Mentions(hs), {}), hs)
    IN  IF found # <<>> THEN found ELSE <<"Diversified Portfolio">>

analyzeExpertise(hs) ==
    LET ms == Mentions(hs)
        keys == KeysInOrder(ms, {})
        found == SelectSeqBy(keys, hs)
    IN  IF found = <<>> /\ keys # <<>>
        THEN Slice(SortDesc(keys, ms), ExpertiseTopN)
        ELSE IF found # <<>> THEN found ELSE <<"Diversified Portfolio">>

(***************************************************************************)
(* Inputs of analyzeExpertise                                              *)
(***************************************************************************)
HoldingValues == {0, 1, 4}
CategoryLists == { <<>>, <<"DeFi">>, <<"Meme", "Meme">>, <<"DeFi", "Meme", "AI", "NFT">> }
HoldingChoices == [symbol : {"T"}, value : HoldingValues, categories : CategoryLists]

RECURSIVE SeqsUpTo(_, _)
SeqsUpTo(S, n) ==
    IF n = 0 THEN { <<>> }
    ELSE LET shorter == SeqsUpTo(S, n - 1)
         IN  shorter \cup { Append(q, x) : q \in { r \in shorter : Len(r) = n - 1 }, x \in S }

HoldingInputs == SeqsUpTo(HoldingChoices, MaxHoldings)

(***************************************************************************)
(* Strings are sequences of one-character strings.  The operators below    *)
(* model the String and RegExp built-ins the intent detector calls.        *)
(***************************************************************************)
UpperSeq == << "A","B","C","D","E","F","G","H","I","J","K","L","M",
               "N","O","P","Q","R","S","T","U","V","W","X","Y","Z" >>
LowerSeq == << "a","b","c","d","e","f","g","h","i","j","k","l","m",
               "n","o","p","q","r","s","t","u","v","w","x","y","z" >>
UpperChars == { UpperSeq[i] : i \in 1..26 }
LowerChars == { LowerSeq[i] : i \in 1..26 }
DigitChars == { "0","1","2","3","4","5","6","7","8","9" }
\* \w and \s of a RegExp without the u flag
WordChars == UpperChars \cup LowerChars \cup DigitChars \cup { "_" }
SpaceChars == { " ", "\t", "\n" }

LowerOf == [ c \in UpperChars |-> LowerSeq[CHOOSE i \in 1..26 : UpperSeq[i] = c] ]
UpperOf == [ c \in LowerChars |-> UpperSeq[CHOOSE i \in 1..26 : LowerSeq[i] = c] ]
LowerChar(c) == IF c \in UpperChars THEN LowerOf[c] ELSE c
UpperChar(c) == IF c \in LowerChars THEN UpperOf[c] ELSE c

\* String.prototype.toLowerCase / toUpperCase
toLowerCase(s) == [ i \in 1..Len(s) |-> LowerChar(s[i]) ]
toUpperCase(s) == [ i \in 1..Len(s) |-> UpperChar(s[i]) ]

\* String.prototype.includes
includes(s, sub) ==
    \E i \in 1..(Len(s) - Len(sub) + 1) : SubSeq(s, i, i + Len(sub) - 1) = sub

\* String.prototype.trim
RECURSIVE TrimLeft(_)
TrimLeft(s) == IF s # <<>> /\ s[1] \in SpaceChars THEN TrimLeft(Tail(s)) ELSE s
RECURSIVE TrimRight(_)
TrimRight(s) ==
    IF s # <<>> /\ s[Len(s)] \in SpaceChars THEN TrimRight(SubSeq(s, 1, Len(s) - 1)) ELSE s
trim(s) == TrimRight(TrimLeft(s))

\* the list returned as it is, without the Set
DedupeMutKeepsAll(list, seen) == list

\* [...new Set(list)]: the first occurrence of every element, in order
RECURSIVE Dedupe(_, _)
Dedupe(list, seen) ==
    IF list = <<>> THEN <<>>
    ELSE IF list[1] \in seen THEN Dedupe(Tail(list), seen)
    ELSE <<list[1]>> \o Dedupe(Tail(list), seen \cup {list[1]})

(***************************************************************************)
(* Regular expressions: a pattern is a sequence of nodes, matched by       *)
(* backtracking in the priority order of ECMAScript (alternatives left to  *)
(* right, quantifiers greedy).                                             *)
(***************************************************************************)
Lit(s) == [t |-> "lit", s |-> s, cs |-> {}, lo |-> 0, hi |-> 0, alts |-> <<>>, n |-> 0]
\* a character class with a quantifier {lo,hi}
Cls(cs, lo, hi) == [t |-> "cls", s |-> <<>>, cs |-> cs, lo |-> lo, hi |-> hi, alts |-> <<>>, n |-> 0]
\* (?:a|b|...), each alternative a sequence of nodes
Alt(alts) == [t |-> "alt", s |-> <<>>, cs |-> {}, lo |-> 0, hi |-> 0, alts |-> alts, n |-> 0]
\* (?:...)?
Opt(nodes) == Alt(<< nodes, <<>> >>)
\* the opening and the closing parenthesis of capture group n
Open(n) == [t |-> "open", s |-> <<>>, cs |-> {}, lo |-> 0, hi |-> 0, alts |-> <<>>, n |-> n]
Close(n) == [t |-> "close", s |-> <<>>, cs |-> {}, lo |-> 0, hi |-> 0, alts |-> <<>>, n |-> n]
\* \b, ^ and $
WordBoundary == [t |-> "wb", s |-> <<>>, cs |-> {}, lo |-> 0, hi |-> 0, alts |-> <<>>, n |-> 0]
LineStart == [t |-> "bol", s |-> <<>>, cs |-> {}, lo |-> 0, hi |-> 0, alts |-> <<>>, n |-> 0]
LineEnd == [t |-> "eol", s |-> <<>>, cs |-> {}, lo |-> 0, hi |-> 0, alts |-> <<>>, n |-> 0]
\* the upper limit of + and *
Unbounded == 1000000

NoCaptures == << <<0, 0>>, <<0, 0>> >>
NoMatch == [ok |-> FALSE, start |-> 0, stop |-> 0, caps |-> NoCaptures]

\* a class member, under the i flag in either case
InClass(c, cs, ci) == c \in cs \/ (ci /\ (LowerChar(c) \in cs \/ UpperChar(c) \in cs))

LitAt(lit, s, pos, ci) ==
    /\ pos + Len(lit) - 1 <= Len(s)
    /\ \A k \in 1..Len(lit) :
          \/ s[pos + k - 1] = lit[k]
          \/ ci /\ LowerChar(s[pos + k - 1]) = LowerChar(lit[k])

\* the number of class members from pos on, at most hi
RECURSIVE RunLength(_, _, _, _, _)
RunLength(cs, s, pos, hi, ci) ==
    IF hi = 0 \/ pos > Len(s) \/ ~InClass(s[pos], cs, ci) THEN 0
    ELSE 1 + RunLength(cs, s, pos + 1, hi - 1, ci)

IsWordAt(s, pos) == pos >= 1 /\ pos <= Len(s) /\ s[pos] \in WordChars

RECURSIVE MatchNodes(_, _, _, _, _)
RECURSIVE MatchRepeat(_, _, _, _, _, _, _)
RECURSIVE MatchAlternatives(_, _, _, _, _, _)

\* the quantified class took k characters; give them back one by one down to lo
MatchRepeat(rest, s, pos, k, lo, caps, ci) ==
    IF k < lo THEN NoMatch
    ELSE LET r == MatchNodes(rest, s, pos + k, caps, ci)
         IN  IF r.ok THEN r ELSE MatchRepeat(rest, s, pos, k - 1, lo, caps, ci)

MatchAlternatives(alts, rest, s, pos, caps, ci) ==
    IF alts = <<>> THEN NoMatch
    ELSE LET r == MatchNodes(alts[1] \o rest, s, pos, caps, ci)
         IN  IF r.ok THEN r ELSE MatchAlternatives(Tail(alts), rest, s, pos, caps, ci)

\* the first way, in priority order, in which the nodes match s from pos on
MatchNodes(nodes, s, pos, caps, ci) ==
    IF nodes = <<>> THEN [ok |-> TRUE, start |-> 0, stop |-> pos, caps |-> caps]
    ELSE LET n == nodes[1]
             rest == Tail(nodes)
         IN  CASE n.t = "lit" ->
                    IF LitAt(n.s, s, pos, ci)
                    THEN MatchNodes(rest, s, pos + Len(n.s), caps, ci) ELSE NoMatch
               [] n.t = "cls" ->
                    MatchRepeat(rest, s, pos, RunLength(n.cs, s, pos, n.hi, ci), n.lo, caps, ci)
               [] n.t = "alt" -> MatchAlternatives(n.alts, rest, s, pos, caps, ci)
               [] n.t = "open" ->
                    MatchNodes(rest, s, pos, [caps EXCEPT ![n.n] = <<pos, pos>>], ci)
               [] n.t = "close" ->
                    MatchNodes(rest, s, pos, [caps EXCEPT ![n.n] = <<caps[n.n][1], pos>>], ci)
               [] n.t = "wb" ->
                    IF IsWordAt(s, pos - 1) # IsWordAt(s, pos)
                    THEN MatchNodes(rest, s, pos, caps, ci) ELSE NoMatch
               [] n.t = "bol" ->
                    IF pos = 1 THEN MatchNodes(rest, s, pos, caps, ci) ELSE NoMatch
               [] n.t = "eol" ->
                    IF pos = Len(s) + 1 THEN MatchNodes(rest, s, pos, caps, ci) ELSE NoMatch

\* RegExp.prototype.exec from lastIndex on: the leftmost match
RECURSIVE Exec(_, _, _, _)
Exec(re, s, from, ci) ==
    IF from > Len(s) + 1 THEN NoMatch
    ELSE LET r == MatchNodes(re, s, from, NoCaptures, ci)
         IN  IF r.ok THEN [r EXCEPT !.start = from] ELSE Exec(re, s, from + 1, ci)

\* the matches of a g-flagged pattern (String.prototype.match and matchAll),
\* starting from the lastIndex of the pattern object
RECURSIVE MatchAllFrom(_, _, _, _)
MatchAllFrom(re, s, lastIndex, ci) ==
    LET r == Exec(re, s, lastIndex + 1, ci)
    IN  IF ~r.ok THEN <<>>
        ELSE <<r>> \o MatchAllFrom(re, s, IF r.stop = r.start THEN r.stop ELSE r.stop - 1, ci)

\* the text of a match and of its capture group n
Matched(s, r) == SubSeq(s, r.start, r.stop - 1)
Group(s, r, n) == SubSeq(s, r.caps[n][1], r.caps[n][2] - 1)

(***************************************************************************)
(* Intent detector: tables                                                 *)
(***************************************************************************)
\* DAPP_PROTOCOLS, in the order of the source ('aave' is listed twice)
DAPP_PROTOCOLS ==
    << <<"u","n","i","s","w","a","p">>,  \* uniswap
       <<"p","a","n","c","a","k","e","s","w","a","p">>,  \* pancakeswap
       <<"s","u","s","h","i","s","w","a","p">>,  \* sushiswap
       <<"c","u","r","v","e">>,  \* curve
       <<"b","a","l","a","n","c","e","r">>,  \* balancer
       <<"d","y","d","x">>,  \* dydx
       <<"a","a","v","e">>,  \* aave
       <<"0","x">>,  \* 0x
       <<"m","a","t","c","h","a">>,  \* matcha
       <<"c","o","m","p","o","u","n","d">>,  \* compound
       <<"a","a","v","e">>,  \* aave
       <<"m","a","k","e","r">>,  \* maker
       <<"f","l","u","x">>,  \* flux
       <<"i","r","o","n">>,  \* iron
       <<"s","o","l","e","n","d">>,  \* solend
       <<"p","o","r","t">>,  \* port
       <<"j","e","t">>,  \* jet
       <<"l","a","r","i","x">>,  \* larix
       <<"o","r","c","a">>,  \* orca
       <<"r","a","y","d","i","u","m">>,  \* raydium
       <<"l","i","d","o">>,  \* lido
       <<"r","o","c","k","e","t","p","o","o","l">>,  \* rocketpool
       <<"s","t","a","k","e","w","i","s","e">>,  \* stakewise
       <<"m","a","r","i","n","a","d","e">>,  \* marinade
       <<"s","a","n","c","t","u","m">>,  \* sanctum
       <<"s","o","c","e","a","n">>,  \* socean
       <<"j","u","p">>,  \* jup
       <<"m","a","g","i","c"," ","e","d","e","n">>,  \* magic eden
       <<"w","o","r","m","h","o","l","e">>,  \* wormhole
       <<"c","c","t","p">>,  \* cctp
       <<"s","t","a","r","g","a","t","e">>,  \* stargate
       <<"a","n","y","s","w","a","p">>,  \* anyswap
       <<"y","e","a","r","n">>,  \* yearn
       <<"c","o","n","v","e","x">>,  \* convex
       <<"a","u","r","a">>,  \* aura
       <<"g","a","i","n","s">>,  \* gains
       <<"g","m","d">>,  \* gmd
       <<"o","p","e","n","s","e","a">>,  \* opensea
       <<"b","l","u","r">>,  \* blur
       <<"r","e","s","e","r","v","o","i","r">>,  \* reservoir
       <<"b","l","u","r"," ","p","r","o","t","o","c","o","l">>,  \* blur protocol
       <<"g","m","x">>,  \* gmx
       <<"p","e","r","p","e","t","u","a","l"," ","p","r","o","t","o","c","o","l">>,  \* perpetual protocol
       <<"k","w","e","n","t","a">>,  \* kwenta
       <<"i","n","s","t","a","d","a","p","p">>,  \* instadapp
       <<"m","o","r","p","h","o">>,  \* morpho
       <<"e","u","l","e","r">>,  \* euler
       <<"v","e","n","u","s">>,  \* venus
       <<"a","l","p","a","c","a">>,  \* alpaca
       <<"b","e","e","f","y">>,  \* beefy
       <<"a","u","t","o","f","a","r","m">> >>  \* autofarm

\* INTENT_KEYWORDS
IntentKeywordsToken ==
    << <<"p","r","i","c","e">>,  \* price
       <<"t","o","k","e","n">>,  \* token
       <<"s","o","l">>,  \* sol
       <<"u","s","d","c">>,  \* usdc
       <<"u","s","d","t">>,  \* usdt
       <<"e","t","h">>,  \* eth
       <<"b","t","c">>,  \* btc
       <<"w","h","a","t","'","s">>,  \* what's
       <<"s","h","o","w"," ","m","e">>,  \* show me
       <<"h","e","a","l","t","h">>,  \* health
       <<"l","i","q","u","i","d","i","t","y">>,  \* liquidity
       <<"v","o","l","u","m","e">>,  \* volume
       <<"m","a","r","k","e","t"," ","c","a","p">>,  \* market cap
       <<"h","o","l","d","e","r","s">>,  \* holders
       <<"r","i","s","k">>,  \* risk
       <<"s","a","f","e">>,  \* safe
       <<"p","u","m","p">>,  \* pump
       <<"c","h","a","r","t">> >>  \* chart
IntentKeywordsWallet ==
    << <<"w","a","l","l","e","t">>,  \* wallet
       <<"a","d","d","r","e","s","s">>,  \* address
       <<"b","a","l","a","n","c","e">>,  \* balance
       <<"p","o","r","t","f","o","l","i","o">>,  \* portfolio
       <<"w","h","a","l","e">>,  \* whale
       <<"i","n","f","l","o","w">>,  \* inflow
       <<"o","u","t","f","l","o","w">>,  \* outflow
       <<"t","r","a","n","s","a","c","t","i","o","n">>,  \* transaction
       <<"a","c","t","i","v","i","t","y">>,  \* activity
       <<"s","m","a","r","t"," ","m","o","n","e","y">> >>  \* smart money
IntentKeywordsMarket ==
    << <<"t","r","e","n","d","i","n","g">>,  \* trending
       <<"t","o","p">>,  \* top
       <<"m","o","v","e","r","s">>,  \* movers
       <<"m","a","r","k","e","t">>,  \* market
       <<"t","r","e","n","d">>,  \* trend
       <<"t","r","e","n","d","s">>,  \* trends
       <<"s","e","c","t","o","r">>,  \* sector
       <<"d","e","f","i">>,  \* defi
       <<"n","f","t">>,  \* nft
       <<"a","r","b","i","t","r","a","g","e">>,  \* arbitrage
       <<"o","p","p","o","r","t","u","n","i","t","y">>,  \* opportunity
       <<"a","l","e","r","t","s">>,  \* alerts
       <<"c","r","y","p","t","o"," ","m","a","r","k","e","t">>,  \* crypto market
       <<"m","a","r","k","e","t"," ","s","e","n","t","i","m","e","n","t">>,  \* market sentiment
       <<"m","a","r","k","e","t"," ","c","a","p">>,  \* market cap
       <<"d","o","m","i","n","a","n","c","e">>,  \* dominance
       <<"g","a","i","n","e","r","s">>,  \* gainers
       <<"l","o","s","e","r","s">>,  \* losers
       <<"o","v","e","r","a","l","l">>,  \* overall
       <<"o","v","e","r","a","l","l"," ","m","a","r","k","e","t">>,  \* overall market
       <<"g","e","n","e","r","a","l"," ","m","a","r","k","e","t">> >>  \* general market
IntentKeywordsComparison ==
    << <<"c","o","m","p","a","r","e">>,  \* compare
       <<"v","s">>,  \* vs
       <<"v","e","r","s","u","s">>,  \* versus
       <<"b","e","t","t","e","r">>,  \* better
       <<"d","i","f","f","e","r","e","n","c","e">>,  \* difference
       <<"w","h","i","c","h">> >>  \* which
IntentKeywordsAlert ==
    << <<"a","l","e","r","t">>,  \* alert
       <<"n","o","t","i","f","y">>,  \* notify
       <<"w","a","t","c","h">>,  \* watch
       <<"r","e","m","i","n","d">>,  \* remind
       <<"w","h","e","n">>,  \* when
       <<"s","e","t">>,  \* set
       <<"c","r","e","a","t","e"," ","a","l","e","r","t">> >>  \* create alert
IntentKeywordsDapp ==
    << <<"p","r","o","t","o","c","o","l">>,  \* protocol
       <<"t","v","l">>,  \* tvl
       <<"a","p","y">>,  \* apy
       <<"d","a","p","p">>,  \* dapp
       <<"d","e","f","i">>,  \* defi
       <<"y","i","e","l","d">>,  \* yield
       <<"p","o","o","l">>,  \* pool
       <<"s","t","a","k","i","n","g">>,  \* staking
       <<"f","a","r","m","i","n","g">>,  \* farming
       <<"t","r","a","d","i","n","g">> >>  \* trading

\* the keys of INTENT_KEYWORDS and of scores, in insertion order
KeywordIntents == << "token", "wallet", "market", "comparison", "alert", "dapp" >>
IntentTypes == << "token", "wallet", "market", "comparison", "alert", "dapp", "general" >>

INTENT_KEYWORDS(intentType) ==
    CASE intentType = "token" -> IntentKeywordsToken
      [] intentType = "wallet" -> IntentKeywordsWallet
      [] intentType = "market" -> IntentKeywordsMarket
      [] intentType = "comparison" -> IntentKeywordsComparison
      [] intentType = "alert" -> IntentKeywordsAlert
      [] intentType = "dapp" -> IntentKeywordsDapp
      [] intentType = "general" -> <<>>

\* excludeWords of extractTokens
ExcludeWords ==
    << <<"T","H","E">>,  \* THE
       <<"A","N","D">>,  \* AND
       <<"F","O","R">>,  \* FOR
       <<"N","O","T">>,  \* NOT
       <<"B","U","T">>,  \* BUT
       <<"A","R","E">>,  \* ARE
       <<"Y","O","U">>,  \* YOU
       <<"A","L","L">>,  \* ALL
       <<"C","A","N">>,  \* CAN
       <<"H","E","R">>,  \* HER
       <<"W","A","S">>,  \* WAS
       <<"O","N","E">>,  \* ONE
       <<"O","U","R">>,  \* OUR
       <<"O","U","T">>,  \* OUT
       <<"D","A","Y">>,  \* DAY
       <<"G","E","T">>,  \* GET
       <<"H","A","S">>,  \* HAS
       <<"H","I","M">>,  \* HIM
       <<"H","I","S">>,  \* HIS
       <<"H","O","W">>,  \* HOW
       <<"I","T","S">>,  \* ITS
       <<"M","A","Y">>,  \* MAY
       <<"N","E","W">>,  \* NEW
       <<"N","O","W">>,  \* NOW
       <<"O","L","D">>,  \* OLD
       <<"S","E","E">>,  \* SEE
       <<"T","W","O">>,  \* TWO
       <<"W","H","O">>,  \* WHO
       <<"B","O","Y">>,  \* BOY
       <<"D","I","D">>,  \* DID
       <<"L","E","T">>,  \* LET
       <<"P","U","T">>,  \* PUT
       <<"S","A","Y">>,  \* SAY
       <<"S","H","E">>,  \* SHE
       <<"T","O","O">>,  \* TOO
       <<"U","S","E">>,  \* USE
       <<"W","H","Y">>,  \* WHY
       <<"I","N","T","O">>,  \* INTO
       <<"E","X","P","L","A","I","N">>,  \* EXPLAIN
       <<"S","H","O","W">>,  \* SHOW
       <<"T","E","L","L">>,  \* TELL
       <<"W","H","A","T">>,  \* WHAT
       <<"W","H","E","N">>,  \* WHEN
       <<"W","H","E","R","E">>,  \* WHERE
       <<"W","H","I","C","H">>,  \* WHICH
       <<"W","H","I","L","E">>,  \* WHILE
       <<"W","I","T","H">>,  \* WITH
       <<"C","H","E","C","K">>,  \* CHECK
       <<"W","H","A","T","S">>,  \* WHATS
       <<"W","H","A","T","S">> >>  \* WHATS

(***************************************************************************)
(* Intent detector: the patterns                                           *)
(***************************************************************************)
\* (?:w1|w2|...)
Words(list) == Alt([ i \in 1..Len(list) |-> << Lit(list[i]) >> ])
\* \s+
Spaces == Cls(SpaceChars, 1, Unbounded)
\* ([A-Z]{2,10}) as capture group 1
SymbolGroup == << Open(1), Cls(UpperChars, 2, 10), Close(1) >>
\* [1-9A-HJ-NP-Z]
Base58UpperChars == ((DigitChars \ {"0"}) \cup UpperChars) \ {"I", "O"}

\* /[1-9A-HJ-NP-Z]{32,44}/g of extractTokens
TokenAddressMinLen == 32
TokenAddressMaxLen == 44
\* the token pattern stopping one character short of a wallet address
TokenAddressRegexMutShort == << Cls(Base58UpperChars, TokenAddressMinLen, TokenAddressMaxLen - 1) >>
TokenAddressRegex == << Cls(Base58UpperChars, TokenAddressMinLen, TokenAddressMaxLen) >>

\* /[1-9A-HJ-NP-Z]{44}/g of extractWallets
WalletAddressLen == 44
WalletAddressRegex == << Cls(Base58UpperChars, WalletAddressLen, WalletAddressLen) >>

\* tokenContextPatterns, all with the flags gi
TokenContextPattern1 ==
    << Words(<< <<"p","r","i","c","e">>, <<"c","h","a","r","t">>, <<"b","u","y">>, <<"s","e","l","l">>, <<"s","w","a","p">>, <<"t","r","a","d","e">>, <<"c","o","s","t">>, <<"c","u","r","r","e","n","t">>, <<"s","h","o","w">> >>),
       Spaces, Opt(<< Lit(<<"o","f">>), Spaces >>) >> \o SymbolGroup \o << WordBoundary >>
TokenContextPattern2 ==
    << WordBoundary >> \o SymbolGroup \o
    << Spaces, Words(<< <<"t","o","k","e","n">>, <<"c","o","i","n">>, <<"p","r","i","c","e">>, <<"c","h","a","r","t">>, <<"c","o","s","t">>, <<"c","u","r","r","e","n","t">> >>) >>
TokenContextPattern3 ==
    << Words(<< <<"t","o","k","e","n">>, <<"c","o","i","n">>, <<"p","r","i","c","e">>, <<"c","u","r","r","e","n","t">>, <<"c","o","s","t">> >>), Spaces >>
        \o SymbolGroup \o << WordBoundary >>
TokenContextPattern4 ==
    << Alt(<< << Lit(<<"w","h","a","t">>), Opt(<< Alt(<< << Lit(<<"'","s">>) >>, << Lit(<<"s">>) >> >>) >>) >>,
              << Lit(<<"i","s">>) >>, << Lit(<<"t","h","e">>) >>, << Lit(<<"c","h","e","c","k">>) >> >>),
       Spaces,
       Opt(<< Lit(<<"t","h","e">>), Spaces >>),
       Opt(<< Lit(<<"c","u","r","r","e","n","t">>), Spaces >>),
       Opt(<< Lit(<<"p","r","i","c","e">>), Spaces, Opt(<< Lit(<<"o","f">>), Spaces >>) >>) >>
        \o SymbolGroup \o << WordBoundary >>
tokenContextPatterns ==
    << TokenContextPattern1, TokenContextPattern2, TokenContextPattern3, TokenContextPattern4 >>

\* /\b([a-z]{2,10})(?:\s+(?:token|coin|price|chart|data|current|cost))/gi
tokenContextRegex ==
    << WordBoundary, Open(1), Cls(LowerChars, 2, 10), Close(1), Spaces,
       Words(<< <<"t","o","k","e","n">>, <<"c","o","i","n">>, <<"p","r","i","c","e">>, <<"c","h","a","r","t">>, <<"d","a","t","a">>, <<"c","u","r","r","e","n","t">>, <<"c","o","s","t">> >>) >>

\* /^[a-z]{2,10}$/i
SimpleTokenRegex == << LineStart, Cls(LowerChars, 2, 10), LineEnd >>
SimpleTokenMaxQueryLen == 15

\* /([A-Z\w]+)\s+(?:vs|versus)\s+([A-Z\w]+)/i
VsRegex ==
    << Open(1), Cls(UpperChars \cup WordChars, 1, Unbounded), Close(1), Spaces,
       Words(<< <<"v","s">>, <<"v","e","r","s","u","s">> >>), Spaces,
       Open(2), Cls(UpperChars \cup WordChars, 1, Unbounded), Close(2) >>

\* /compare\s+([A-Z\w]+)\s+(?:and|to|with)\s+([A-Z\w]+)/i
CompareRegex ==
    << Lit(<<"c","o","m","p","a","r","e">>), Spaces,
       Open(1), Cls(UpperChars \cup WordChars, 1, Unbounded), Close(1), Spaces,
       Words(<< <<"a","n","d">>, <<"t","o">>, <<"w","i","t","h">> >>), Spaces,
       Open(2), Cls(UpperChars \cup WordChars, 1, Unbounded), Close(2) >>

\* a pattern literal evaluated in a function body is a new object: lastIndex 0
NewRegExpLastIndex == 0

(***************************************************************************)
(* Intent detector: the extractors                                         *)
(***************************************************************************)
RECURSIVE SelectIncluded(_, _)
SelectIncluded(list, s) ==
    IF list = <<>> THEN <<>>
    ELSE (IF includes(s, list[1]) THEN <<list[1]>> ELSE <<>>) \o SelectIncluded(Tail(list), s)

extractDApps(q) == Dedupe(SelectIncluded(DAPP_PROTOCOLS, toLowerCase(q)), {})

\* the whole matches of a g-flagged pattern
MatchTexts(re, s, ci) ==
    LET ms == MatchAllFrom(re, s, NewRegExpLastIndex, ci)
    IN  [ i \in 1..Len(ms) |-> Matched(s, ms[i]) ]

\* capture group 1 of every match, upper-cased
GroupTexts(re, s) ==
    LET ms == MatchAllFrom(re, s, NewRegExpLastIndex, TRUE)
    IN  [ i \in 1..Len(ms) |-> toUpperCase(Group(s, ms[i], 1)) ]

RECURSIVE PatternTokens(_, _)
PatternTokens(patterns, q) ==
    IF patterns = <<>> THEN <<>>
    ELSE GroupTexts(patterns[1], q) \o PatternTokens(Tail(patterns), q)

RECURSIVE RemoveExcluded(_)
RemoveExcluded(tokens) ==
    IF tokens = <<>> THEN <<>>
    ELSE (IF \E i \in 1..Len(ExcludeWords) : ExcludeWords[i] = toUpperCase(tokens[1])
          THEN <<>> ELSE <<tokens[1]>>) \o RemoveExcluded(Tail(tokens))

\* the fallback applied to the query as typed, without the trim
SimpleTokenMutUntrimmed(q, found) ==
    LET m == Exec(SimpleTokenRegex, q, 1, TRUE)
    IN  IF found = <<>> /\ Len(q) <= SimpleTokenMaxQueryLen /\ m.ok
        THEN << toUpperCase(Matched(q, m)) >> ELSE <<>>

SimpleToken(q, found) ==
    LET trimmedQuery == trim(q)
        m == Exec(SimpleTokenRegex, trimmedQuery, 1, TRUE)
    IN  IF found = <<>> /\ Len(trimmedQuery) <= SimpleTokenMaxQueryLen /\ m.ok
        THEN << toUpperCase(Matched(trimmedQuery, m)) >> ELSE <<>>

extractTokens(q) ==
    LET tokens == MatchTexts(TokenAddressRegex, q, FALSE) \o PatternTokens(tokenContextPatterns, q)
        filteredTokens == RemoveExcluded(tokens) \o GroupTexts(tokenContextRegex, q)
    IN  Dedupe(filteredTokens \o SimpleToken(q, filteredTokens), {})

extractWallets(q) == Dedupe(MatchTexts(WalletAddressRegex, q, FALSE), {})

\* an optional value: <<>> is undefined, <<v>> is v
Undefined == <<>>
Some(v) == << v >>

\* the two patterns tried in the other order
detectComparisonMutCompareFirst(q) ==
    LET vsMatch == Exec(VsRegex, q, 1, TRUE)
        compareMatch == Exec(CompareRegex, q, 1, TRUE)
    IN  IF compareMatch.ok
        THEN Some([from |-> Group(q, compareMatch, 1), to |-> Group(q, compareMatch, 2)])
        ELSE IF vsMatch.ok
        THEN Some([from |-> Group(q, vsMatch, 1), to |-> Group(q, vsMatch, 2)])
        ELSE Undefined

detectComparison(q) ==
    LET vsMatch == Exec(VsRegex, q, 1, TRUE)
        compareMatch == Exec(CompareRegex, q, 1, TRUE)
    IN  IF vsMatch.ok
        THEN Some([from |-> Group(q, vsMatch, 1), to |-> Group(q, vsMatch, 2)])
        ELSE IF compareMatch.ok
        THEN Some([from |-> Group(q, compareMatch, 1), to |-> Group(q, compareMatch, 2)])
        ELSE Undefined

(***************************************************************************)
(* Intent detector: detectIntent                                           *)
(***************************************************************************)
\* Scores are doubles in the code.  Here a score is an integer number of units of
\* 1/ScoreUnit, exact but for FloatSkew: the few sums that IEEE-754 rounds to the
\* double next to the one of an equal exact value.
ScoreUnit == 2520

RECURSIVE MatchCount(_, _)
MatchCount(keywords, lowerQuery) ==
    IF keywords = <<>> THEN 0
    ELSE (IF includes(lowerQuery, keywords[1]) THEN 1 ELSE 0) + MatchCount(Tail(keywords), lowerQuery)

\* matchCount / keywords.length
KeywordScore(intentType, lowerQuery) ==
    IF intentType = "general" THEN 0
    ELSE (MatchCount(INTENT_KEYWORDS(intentType), lowerQuery) * ScoreUnit)
            \div Len(INTENT_KEYWORDS(intentType))

\* 6/10 + 0.3 is the double below 0.9; 2/10 + 0.4 and 8/10 + 0.4 are the doubles
\* above 0.6 and 1.2
FloatSkew(intentType, matchCount) ==
    IF intentType = "wallet" /\ matchCount = 6 THEN 0 - 1
    ELSE IF intentType = "dapp" /\ matchCount \in {2, 8} THEN 1
    ELSE 0

TokenBoost == (3 * ScoreUnit) \div 10
WalletBoost == (3 * ScoreUnit) \div 10
ComparisonBoost == (3 * ScoreUnit) \div 10
DappBoost == (4 * ScoreUnit) \div 10
AlertBoost == (2 * ScoreUnit) \div 10

isMarketQuery(lowerQuery) ==
    \/ includes(lowerQuery, <<"t","r","e","n","d">>)
    \/ includes(lowerQuery, <<"o","v","e","r","a","l","l"," ","m","a","r","k","e","t">>)
    \/ includes(lowerQuery, <<"c","r","y","p","t","o"," ","m","a","r","k","e","t">>)
    \/ includes(lowerQuery, <<"m","a","r","k","e","t"," ","s","e","n","t","i","m","e","n","t">>)
    \/ includes(lowerQuery, <<"g","a","i","n","e","r","s">>)
    \/ includes(lowerQuery, <<"l","o","s","e","r","s">>)
    \/ includes(lowerQuery, <<"m","a","r","k","e","t"," ","c","a","p"," ","r","a","n","k","i","n","g">>)
    \/ includes(lowerQuery, <<"m","a","r","k","e","t"," ","d","o","m","i","n","a","n","c","e">>)

\* the dapp boost written with the 0.3 of the other entity boosts
BoostMutDappAsOthers(intentType, tokens, wallets, comparison, dapps, lowerQuery) ==
    CASE intentType = "token" /\ tokens # <<>> -> TokenBoost
      [] intentType = "wallet" /\ wallets # <<>> -> WalletBoost
      [] intentType = "comparison" /\ comparison # Undefined -> ComparisonBoost
      [] intentType = "dapp" /\ dapps # <<>> -> TokenBoost
      [] intentType = "alert" /\ includes(lowerQuery, <<"a","l","e","r","t">>) -> AlertBoost
      [] OTHER -> 0

\* the boost an intent type receives from the extracted entities
Boost(intentType, tokens, wallets, comparison, dapps, lowerQuery) ==
    CASE intentType = "token" /\ tokens # <<>> -> TokenBoost
      [] intentType = "wallet" /\ wallets # <<>> -> WalletBoost
      [] intentType = "comparison" /\ comparison # Undefined -> ComparisonBoost
      [] intentType = "dapp" /\ dapps # <<>> -> DappBoost
      [] intentType = "alert" /\ includes(lowerQuery, <<"a","l","e","r","t">>) -> AlertBoost
      [] OTHER -> 0

BoostedScore(intentType, tokens, wallets, comparison, dapps, lowerQuery) ==
    LET b == Boost(intentType, tokens, wallets, comparison, dapps, lowerQuery)
    IN  KeywordScore(intentType, lowerQuery) + b
          + (IF b > 0 THEN FloatSkew(intentType, MatchCount(INTENT_KEYWORDS(intentType), lowerQuery))
             ELSE 0)

\* the loop without its maxScore = score: every entry above the first maximum wins
RECURSIVE PrimaryIntentMutKeepsMaxScore(_, _, _, _)
PrimaryIntentMutKeepsMaxScore(scores, i, best, maxScore) ==
    IF i > Len(IntentTypes) THEN [type |-> best, maxScore |-> maxScore]
    ELSE IF scores[IntentTypes[i]] > maxScore
    THEN PrimaryIntentMutKeepsMaxScore(scores, i + 1, IntentTypes[i], maxScore)
    ELSE PrimaryIntentMutKeepsMaxScore(scores, i + 1, best, maxScore)

\* the loop with >= for >: among equal scores the later entry wins
RECURSIVE PrimaryIntentMutLaterWinsTies(_, _, _, _)
PrimaryIntentMutLaterWinsTies(scores, i, best, maxScore) ==
    IF i > Len(IntentTypes) THEN [type |-> best, maxScore |-> maxScore]
    ELSE IF scores[IntentTypes[i]] >= maxScore
    THEN PrimaryIntentMutLaterWinsTies(scores, i + 1, IntentTypes[i], scores[IntentTypes[i]])
    ELSE PrimaryIntentMutLaterWinsTies(scores, i + 1, best, maxScore)

\* the loop over Object.entries(scores): a later entry wins only with a greater score
RECURSIVE PrimaryIntent(_, _, _, _)
PrimaryIntent(scores, i, best, maxScore) ==
    IF i > Len(IntentTypes) THEN [type |-> best, maxScore |-> maxScore]
    ELSE IF scores[IntentTypes[i]] > maxScore
    THEN PrimaryIntent(scores, i + 1, IntentTypes[i], scores[IntentTypes[i]])
    ELSE PrimaryIntent(scores, i + 1, best, maxScore)

AlertType(lowerQuery) ==
    IF includes(lowerQuery, <<"p","r","i","c","e">>) THEN Some("price")
    ELSE IF includes(lowerQuery, <<"v","o","l","u","m","e">>) THEN Some("volume")
    ELSE IF includes(lowerQuery, <<"w","h","a","l","e">>) THEN Some("whale")
    ELSE IF includes(lowerQuery, <<"r","i","s","k">>) THEN Some("risk")
    ELSE Undefined

Min(a, b) == IF a < b THEN a ELSE b

\* the tokens that take part in the scores and in the result
ClearedTokens(q, extracted) ==
    IF isMarketQuery(toLowerCase(q)) THEN <<>> ELSE extracted

ScoredTokens(q) == ClearedTokens(q, extractTokens(q))

\* scores after the keyword loop
KeywordScores(lowerQuery) ==
    [ t \in { IntentTypes[i] : i \in 1..Len(IntentTypes) } |-> KeywordScore(t, lowerQuery) ]

\* scores after the keyword loop and the boosts
IntentScoresOf(lowerQuery, tokens, wallets, comparison, dapps) ==
    [ t \in { IntentTypes[i] : i \in 1..Len(IntentTypes) } |->
        BoostedScore(t, tokens, wallets, comparison, dapps, lowerQuery) ]

IntentScores(q) ==
    IntentScoresOf(toLowerCase(q), ScoredTokens(q), extractWallets(q), detectComparison(q),
                   extractDApps(q))

\* primaryIntent and maxScore after the loop over the scores
ScoreWinnerOf(scores) == PrimaryIntent(scores, 1, "general", scores["general"])

ScoreWinner(q) == ScoreWinnerOf(IntentScores(q))

\* the comparison override of the primary intent
FinalIntent(comparison, winner) ==
    IF comparison # Undefined THEN "comparison" ELSE winner.type

\* the returned DetectedIntent
IntentResult(q, tokens, wallets, comparison, dapps, winner) ==
    [ type |-> FinalIntent(comparison, winner),
      confidence |-> Min(winner.maxScore, ScoreUnit),
      tokens |-> IF tokens # <<>> THEN Some(tokens) ELSE Undefined,
      wallets |-> IF wallets # <<>> THEN Some(wallets) ELSE Undefined,
      dapps |-> IF dapps # <<>> THEN Some(dapps) ELSE Undefined,
      comparison |-> comparison,
      alertType |-> IF FinalIntent(comparison, winner) = "alert"
                    THEN AlertType(toLowerCase(q)) ELSE Undefined,
      rawQuery |-> q ]

\* the override also taking the comparison score for maxScore
IntentWithScoresMutOverrideScore(q, tokens, wallets, comparison, dapps, scores) ==
    IntentResult(q, tokens, wallets, comparison, dapps,
                 IF comparison # Undefined
                 THEN [type |-> "comparison", maxScore |-> scores["comparison"]]
                 ELSE ScoreWinnerOf(scores))

IntentWithScores(q, tokens, wallets, comparison, dapps, scores) ==
    IntentResult(q, tokens, wallets, comparison, dapps, ScoreWinnerOf(scores))

IntentFrom(q, tokens, wallets, comparison, dapps) ==
    IntentWithScores(q, tokens, wallets, comparison, dapps,
                     IntentScoresOf(toLowerCase(q), tokens, wallets, comparison, dapps))

\* the local variables of detectIntent: tokens as extracted (before the market
\* query clears them), wallets, comparison, dapps, and scores after the keyword
\* loop and after the boosts
DetectLocals(q, extracted, wallets, comparison, dapps) ==
    [ tokens |-> extracted,
      wallets |-> wallets,
      comparison |-> comparison,
      dapps |-> dapps,
      keywordScores |-> KeywordScores(toLowerCase(q)),
      scores |-> IntentScoresOf(toLowerCase(q), ClearedTokens(q, extracted), wallets,
                                comparison, dapps) ]

detectIntent(q) ==
    IntentFrom(q, ScoredTokens(q), extractWallets(q), detectComparison(q), extractDApps(q))

(***************************************************************************)
(* Data-fetch planner: getSuggestedDataFetches                             *)
(***************************************************************************)
TokenSearchEndpoint == "/api/zerion/token-search"
WalletEndpoint == "/api/solana/wallet"
DappInfoEndpoint == "/api/zerion/dapp-info"

\* one descriptor per element of an optional list
FetchEach(optionalList, endpoint, param) ==
    IF optionalList = Undefined THEN <<>>
    ELSE [ i \in 1..Len(optionalList[1]) |->
             [endpoint |-> endpoint, param |-> param, value |-> optionalList[1][i]] ]

\* a planner that fetches by the entities present, whatever the type
getSuggestedDataFetchesMutByEntity(it) ==
    FetchEach(it.tokens, TokenSearchEndpoint, "query")
        \o FetchEach(it.wallets, WalletEndpoint, "address")
        \o FetchEach(it.dapps, DappInfoEndpoint, "search")

\* the token case without its break: it runs on into the wallet case
getSuggestedDataFetchesMutFallThrough(it) ==
    CASE it.type = "token" ->
            FetchEach(it.tokens, TokenSearchEndpoint, "query")
                \o FetchEach(it.wallets, WalletEndpoint, "address")
      [] it.type = "wallet" -> FetchEach(it.wallets, WalletEndpoint, "address")
      [] it.type = "comparison" ->
            IF it.comparison # Undefined
            THEN << [endpoint |-> TokenSearchEndpoint, param |-> "query", value |-> it.comparison[1].from],
                    [endpoint |-> TokenSearchEndpoint, param |-> "query", value |-> it.comparison[1].to] >>
            ELSE <<>>
      [] it.type = "dapp" -> FetchEach(it.dapps, DappInfoEndpoint, "search")
      [] OTHER -> <<>>

getSuggestedDataFetches(it) ==
    CASE it.type = "token" -> FetchEach(it.tokens, TokenSearchEndpoint, "query")
      [] it.type = "wallet" -> FetchEach(it.wallets, WalletEndpoint, "address")
      [] it.type = "comparison" ->
            IF it.comparison # Undefined
            THEN << [endpoint |-> TokenSearchEndpoint, param |-> "query", value |-> it.comparison[1].from],
                    [endpoint |-> TokenSearchEndpoint, param |-> "query", value |-> it.comparison[1].to] >>
            ELSE <<>>
      [] it.type = "dapp" -> FetchEach(it.dapps, DappInfoEndpoint, "search")
      [] it.type = "market" -> <<>>
      [] it.type = "alert" -> <<>>
      [] OTHER -> <<>>

(***************************************************************************)
(* Inputs of the intent detector                                           *)
(***************************************************************************)
\* queries are made of at most MaxPhrases of these phrases, joined by single spaces
Phrases ==
    << <<"W","h","a","t","'","s"," ","t","h","e"," ","p","r","i","c","e"," ","o","f"," ","S","O","L","?">>,  \* What's the price of SOL?
       <<"S","O","L"," ","v","s"," ","E","T","H">>,  \* SOL vs ETH
       <<"B","T","C"," ","v","e","r","s","u","s"," ","S","O","L">>,  \* BTC versus SOL
       <<"c","o","m","p","a","r","e"," ","S","O","L"," ","a","n","d"," ","E","T","H">>,  \* compare SOL and ETH
       <<"v","s"," ","B","T","C">>,  \* vs BTC
       <<"7","X","K","J","Q","9","Z","B","2","M","W","R","4","T","N","P","V","5","H","D","C","8","Y","F","G","A","3","E","S","U","6","L","1","X","K","J","Q","9","Z","B","2","M","W","R">>,  \* 7XKJQ9ZB2MWR4TNPV5HDC8YFGA3ESU6L1XKJQ9ZB2MWR
       <<"1","1","1","1","1","1","1","1","1","1","1","1","1","1","1","1","1","1","1","1","1","1","1","1","1","1","1","1","1","1","1","1">>,  \* 11111111111111111111111111111111
       <<"E","P","j","F","W","d","d","5","A","u","f","q","S","S","q","e","M","2","q","N","1","x","z","y","b","a","p","C","8","G","4","w","E","G","G","k","Z","w","y","T","D","t","1","v">>,  \* EPjFWdd5AufqSSqeM2qN1xzybapC8G4wEGGkZwyTDt1v
       <<"e","t","h">>,  \* eth
       <<"p","r","i","c","e"," ","a","l","e","r","t">>,  \* price alert
       <<"w","a","l","l","e","t">>,  \* wallet
       <<"t","r","e","n","d","i","n","g">>,  \* trending
       <<"u","n","i","s","w","a","p">>,  \* uniswap
       <<"t","h","e"," ","p","r","i","c","e">> >>  \* the price

RECURSIVE JoinWith(_, _)
JoinWith(parts, sep) ==
    IF parts = <<>> THEN <<>>
    ELSE IF Len(parts) = 1 THEN parts[1]
    ELSE parts[1] \o sep \o JoinWith(Tail(parts), sep)

\* queries handed to detectIntent as they are
WholeQueries ==
    { <<"c","h","e","c","k"," ","w","a","l","l","e","t"," ","a","d","d","r","e","s","s"," ","b","a","l","a","n","c","e">>,  \* check wallet address balance
      <<"u","n","i","s","w","a","p"," ","w","a","l","l","e","t"," ","a","d","d","r","e","s","s"," ","b","a","l","a","n","c","e"," ","p","o","r","t","f","o","l","i","o">>,  \* uniswap wallet address balance portfolio
      <<"c","o","m","p","a","r","e"," ","b","e","t","t","e","r"," ","d","i","f","f","e","r","e","n","c","e"," ","w","h","i","c","h"," ","B","T","C"," ","v","e","r","s","u","s"," ","S","O","L">>,  \* compare better difference which BTC versus SOL
      <<"w","a","l","l","e","t"," ","a","d","d","r","e","s","s"," ","b","a","l","a","n","c","e"," ","p","o","r","t","f","o","l","i","o"," ","w","h","a","l","e"," ","i","n","f","l","o","w"," ">>
          \o Phrases[6],  \* wallet address balance portfolio whale inflow <address>
      <<"c","r","y","p","t","o","c","u","r","r","e","n","c","y">>,  \* cryptocurrency
      <<"a">>,  \* a
      <<" ","e","t","h"," ">>,  \* eth between blanks
      <<"a","a","v","e">>,  \* aave
      <<"W","A","L","L","E","T","7","X","K","J","Q","9","Z","B","2","M","W","R","4","T","N","P","V","5","H","D","C","8","Y","F","G","A","3","E","S","U","6","L","1","X","K","J","Q","9">>,  \* WALLET7XKJQ9ZB2MWR4TNPV5HDC8YFGA3ESU6L1XKJQ9
      <<"T","R","E","N","D","7","X","K","J","Q","9","Z","B","2","M","W","R","4","T","N","P","V","5","H","D","C","8","Y","F","G","A","3","E","S","U","6","L","1","X","K","J","Q","9","Z">> }  \* TREND7XKJQ9ZB2MWR4TNPV5HDC8YFGA3ESU6L1XKJQ9Z

Queries ==
    { JoinWith(ps, <<" ">>) : ps \in SeqsUpTo({ Phrases[i] : i \in 1..Len(Phrases) }, MaxPhrases) }
        \cup WholeQueries

\* the values a caller can hand to getSuggestedDataFetches
OptionalLists(S) == { Undefined } \cup { Some(l) : l \in (SeqsUpTo(S, 2) \ { <<>> }) }
IntentValues ==
    [ type : { IntentTypes[i] : i \in 1..Len(IntentTypes) },
      confidence : { 0, ScoreUnit },
      tokens : OptionalLists({ <<"S","O","L">>, <<"E","T","H">> }),
      wallets : OptionalLists({ Phrases[6] }),
      dapps : OptionalLists({ <<"u","n","i","s","w","a","p">> }),
      comparison : { Undefined, Some([from |-> <<"S","O","L">>, to |-> <<"E","T","H">>]) },
      alertType : { Undefined, Some("price") },
      rawQuery : { <<>> } ]

NoQuery == <<>>
NoIntent ==
    [ type |-> "none", confidence |-> 0, tokens |-> Undefined, wallets |-> Undefined,
      dapps |-> Undefined, comparison |-> Undefined, alertType |-> Undefined, rawQuery |-> <<>> ]
NoFetches == <<>>
NoLocals ==
    [ tokens |-> <<>>, wallets |-> <<>>, comparison |-> Undefined, dapps |-> <<>>,
      keywordScores |-> [ t \in { IntentTypes[i] : i \in 1..Len(IntentTypes) } |-> 0 ],
      scores |-> [ t \in { IntentTypes[i] : i \in 1..Len(IntentTypes) } |-> 0 ] ]

(***************************************************************************)
(* Wallet analysis: GET /api/zerion/wallet-analysis and                    *)
(* calculateWalletMetrics (src/app/api/zerion/wallet-analysis/route.ts).   *)
(* Numbers are exact: the position values drawn below make every quotient  *)
(* the code forms a whole number, so \div is the quotient itself.          *)
(***************************************************************************)
TopHoldingsShown == 10
ConcentrationTopN == 3
RecentActivityShown == 5
CategoryDiversificationStep == 20
\* the page size the handler asks of the transactions endpoint
TransactionsPageSize == 20

Max(a, b) == IF a > b THEN a ELSE b

\* positionsArray.reduce((sum, pos) => sum + (pos.attributes?.value || 0), 0)
RECURSIVE PortfolioValue(_)
PortfolioValue(positionsArray) ==
    IF positionsArray = <<>> THEN 0
    ELSE positionsArray[1].value + PortfolioValue(Tail(positionsArray))

\* .filter(pos => (pos.attributes?.value || 0) > 0)
PositivePositions(positionsArray) == SelectSeq(positionsArray, LAMBDA pos : pos.value > 0)

\* .sort((a, b) => (b.attributes?.value || 0) - (a.attributes?.value || 0)): stable
RECURSIVE InsertByValue(_, _)
InsertByValue(sorted, pos) ==
    IF sorted = <<>> THEN << pos >>
    ELSE IF pos.value > sorted[1].value THEN << pos >> \o sorted
    ELSE << sorted[1] >> \o InsertByValue(Tail(sorted), pos)

RECURSIVE SortByValue(_)
SortByValue(seq) ==
    IF seq = <<>> THEN <<>>
    ELSE InsertByValue(SortByValue(SubSeq(seq, 1, Len(seq) - 1)), seq[Len(seq)])

\* what CoinGecko lists for a token; nothing when the lookup fails or finds nothing
TokenCategories(symbol) ==
    CASE symbol = "AAVE" -> << "defi", "decentralized finance" >>
      [] symbol = "BONK" -> << "meme", "solana ecosystem" >>
      [] OTHER -> <<>>

\* normalizeCategory, on lower-case trimmed names
normalizeCategory(category) ==
    CASE category \in {"defi", "decentralized finance"} -> "DeFi"
      [] category \in {"meme", "memecoin", "meme coin"} -> "Meme"
      [] OTHER -> category

getUniqueCategories(categories) ==
    Dedupe([ i \in 1..Len(categories) |-> normalizeCategory(categories[i]) ], {})

\* portfolioValue > 0 ? (value / portfolioValue) * 100 : 0
Percentage(value, portfolioValue) ==
    IF portfolioValue > 0 THEN (value * 100) \div portfolioValue ELSE 0

Holding(pos, portfolioValue) ==
    [ symbol |-> pos.symbol,
      value |-> pos.value,
      percentage |-> Percentage(pos.value, portfolioValue),
      categories |-> getUniqueCategories(TokenCategories(pos.symbol)) ]

topHoldings(positionsArray) ==
    LET shown == Slice(SortByValue(PositivePositions(positionsArray)), TopHoldingsShown)
    IN  [ i \in 1..Len(shown) |-> Holding(shown[i], PortfolioValue(positionsArray)) ]

RECURSIVE SumPercentages(_)
SumPercentages(hs) ==
    IF hs = <<>> THEN 0 ELSE hs[1].percentage + SumPercentages(Tail(hs))

top3Concentration(holdingList) == SumPercentages(Slice(holdingList, ConcentrationTopN))

\* a score that is not floored at 0
diversificationScoreMutNoFloor(concentration) == 100 - concentration

diversificationScore(concentration) == Max(0, 100 - concentration)

\* calculateReturn
calculateReturn(points) ==
    IF Len(points) < 2 THEN 0
    ELSE IF points[1] = 0 THEN 0
    ELSE ((points[Len(points)] - points[1]) * 100) \div points[1]

\* tradesPerDay >= num / den, where tradesPerDay = count / daysDiff is Infinity
\* when daysDiff is 0 and negative when daysDiff is
TradesPerDayAtLeast(count, daysDiff, num, den) ==
    \/ daysDiff = 0
    \/ daysDiff > 0 /\ count * den >= num * daysDiff

tradingFrequency(transactions) ==
    LET first == transactions[Len(transactions)].mined_at
        last == transactions[1].mined_at
        daysDiff == last[1] - first[1]
        count == Len(transactions)
    IN  IF first = Undefined \/ last = Undefined THEN "Unknown"
        ELSE IF TradesPerDayAtLeast(count, daysDiff, 1, 1) THEN "Very Active"
        ELSE IF TradesPerDayAtLeast(count, daysDiff, 1, 2) THEN "Active"
        ELSE IF TradesPerDayAtLeast(count, daysDiff, 1, 5) THEN "Moderate"
        ELSE "Passive"

recentActivity(transactions) ==
    LET validTransactions == SelectSeq(transactions, LAMBDA tx : ~tx.is_trash)
        recent == Slice(validTransactions, RecentActivityShown)
    IN  [ i \in 1..Len(recent) |-> [ transfers |-> recent[i].transfers ] ]

analyzeTransactions(transactions) ==
    IF transactions = <<>>
    THEN [ totalTransactions |-> 0, recentActivity |-> <<>>,
           tradingFrequency |-> "Unknown", lastActivity |-> Undefined ]
    ELSE [ totalTransactions |-> Len(transactions),
           recentActivity |-> recentActivity(transactions),
           tradingFrequency |-> tradingFrequency(transactions),
           lastActivity |-> transactions[1].mined_at ]

\* Math.min(categoryStats.size * 20, 100)
CategoryCountScore(holdingList) ==
    Min(Len(KeysInOrder(Mentions(holdingList), {})) * CategoryDiversificationStep, 100)

\* diversificationScore !== undefined ? diversificationScore : Math.min(...)
categoryDiversification(score, holdingList) ==
    IF score # Undefined THEN score[1] ELSE CategoryCountScore(holdingList)

\* analyzeTradingBehavior: the fields that are not quotients of trade values
analyzeTradingBehavior(d) ==
    [ tradingFrequency |-> d.tradingFrequency,
      tradesPerWeek |-> IF d.totalTransactions > 0 THEN Len(d.recentActivity) ELSE 0,
      riskMetrics |->
        [ categoryDiversification |-> categoryDiversification(d.diversificationScore, d.topHoldings) ] ]

\* x?.data || [] on a response that is null or carries a list
DataOrEmpty(x) == IF x = Undefined THEN <<>> ELSE x[1]

\* pnl?.data?.attributes || {}, each field read with || 0
NoPnl == [ realized_gain |-> 0, unrealized_gain |-> 0, net_invested |-> 0, total_fee |-> 0 ]
pnlData(pnl) == IF pnl = Undefined THEN NoPnl ELSE pnl[1]
\* pnlData.net_invested || 1
netInvested(pnl) == IF pnlData(pnl).net_invested = 0 THEN 1 ELSE pnlData(pnl).net_invested
totalPnL(pnl) == pnlData(pnl).realized_gain + pnlData(pnl).unrealized_gain

calculateWalletMetrics(d) ==
    LET positionsArray == DataOrEmpty(d.positions)
        portfolioValue == PortfolioValue(positionsArray)
        tradingMetrics == analyzeTransactions(DataOrEmpty(d.transactions))
        holdingList == topHoldings(positionsArray)
        concentration == top3Concentration(holdingList)
        score == diversificationScore(concentration)
        walletData ==
            [ portfolioValue |-> portfolioValue,
              totalTransactions |-> tradingMetrics.totalTransactions,
              tradingFrequency |-> tradingMetrics.tradingFrequency,
              diversificationScore |-> score,
              topHoldings |-> holdingList,
              recentActivity |-> tradingMetrics.recentActivity ]
    IN  [ profile |-> [ categorizeWallet(walletData) EXCEPT !.expertise = analyzeExpertise(holdingList) ],
          behavior |-> analyzeTradingBehavior(
                          [ recentActivity |-> tradingMetrics.recentActivity,
                            portfolioValue |-> portfolioValue,
                            topHoldings |-> holdingList,
                            totalTransactions |-> tradingMetrics.totalTransactions,
                            tradingFrequency |-> tradingMetrics.tradingFrequency,
                            diversificationScore |-> Some(score) ]),
          performance |->
            [ portfolioValue |-> portfolioValue,
              realizedPnL |-> pnlData(d.pnl).realized_gain,
              unrealizedPnL |-> pnlData(d.pnl).unrealized_gain,
              totalPnL |-> totalPnL(d.pnl),
              pnlPercentage |-> (totalPnL(d.pnl) * 100) \div netInvested(d.pnl),
              totalFees |-> pnlData(d.pnl).total_fee,
              return30d |-> calculateReturn(DataOrEmpty(d.chart30d)),
              return7d |-> calculateReturn(DataOrEmpty(d.chart7d)) ],
          portfolio |->
            [ totalValue |-> portfolioValue,
              totalHoldings |-> Len(PositivePositions(positionsArray)),
              topHoldings |-> holdingList,
              diversification |->
                [ top3Concentration |-> concentration, diversificationScore |-> score ] ],
          trading |-> tradingMetrics ]

(***************************************************************************)
(* Inputs of calculateWalletMetrics                                        *)
(***************************************************************************)
\* most equal positions in a portfolio
MaxPositions == 10
EqualPositionValue == 10
\* a position put before or after the equal ones; NoExtra stands for none
NoExtra == 0 - 1
ExtraPositionValues == { NoExtra, 0 - 20, 0 - 10, 0, 9, 20, 30, 50, 60 }
\* values are whole dollars or twenty thousands of dollars
PositionUnits == { 1, 20000 }
PositionSymbols == << "AAVE", "BONK", "SOL" >>

ExtraPosition(value) == IF value = NoExtra THEN <<>> ELSE << value >>

PositionList(front, n, back, unit) ==
    LET values == ExtraPosition(front) \o [ i \in 1..n |-> EqualPositionValue ] \o ExtraPosition(back)
    IN  [ i \in 1..Len(values) |->
            [ value |-> values[i] * unit, symbol |-> PositionSymbols[(i % 3) + 1] ] ]

\* every quotient calculateWalletMetrics forms on the list is a whole number
WholePercentages(positionsArray) ==
    \/ PortfolioValue(positionsArray) <= 0
    \/ \A i \in 1..Len(positionsArray) :
          positionsArray[i].value > 0
              => (positionsArray[i].value * 100) % PortfolioValue(positionsArray) = 0

PositionLists ==
    { l \in { PositionList(front, n, back, unit) :
                front \in ExtraPositionValues, n \in 0..MaxPositions,
                back \in ExtraPositionValues, unit \in PositionUnits } :
        WholePercentages(l) }

\* the days between the oldest and the newest transaction of a page
DayDiffs(n) == IF n < 2 THEN { 0 } ELSE { 0 - 1, 0, n, n + 1, 2 * n, 2 * n + 1, 5 * n, 5 * n + 1 }

\* a page, newest first: the second transaction is trash, the first moves value
TransactionPage(n, daysDiff, dated) ==
    [ i \in 1..n |->
        [ mined_at |-> IF ~dated THEN Undefined
                       ELSE IF i = 1 /\ n > 1 THEN Some(1 + daysDiff) ELSE Some(1),
          is_trash |-> (i = 2),
          transfers |-> IF i = 1 THEN << [value |-> 10] >> ELSE <<>> ] ]

TransactionPages ==
    UNION { { TransactionPage(n, daysDiff, dated) : daysDiff \in DayDiffs(n), dated \in BOOLEAN } :
            n \in TransactionCounts }

SamplePnl == [ realized_gain |-> 10, unrealized_gain |-> 5, net_invested |-> 100, total_fee |-> 1 ]
SampleChart == << 100, 120, 150 >>
SamplePositions == PositionList(60, 4, NoExtra, 1)
SampleTransactions == TransactionPage(5, 10, TRUE)

MetricsInputs ==
    [ portfolio : { Some("portfolio") },
      pnl : { Some(SamplePnl) },
      positions : { Some(l) : l \in PositionLists },
      transactions : { Some(p) : p \in TransactionPages },
      chart30d : { Some(SampleChart) },
      chart7d : { Undefined } ]

(***************************************************************************)
(* The GET handler: six upstream requests, each with its own handlers      *)
(***************************************************************************)
\* how an upstream request ends: answered OK, answered with an error status,
\* not answered (network error), or answered OK with a body that is not JSON
RequestOutcomes == { "ok", "notOk", "rejected", "badJson" }

Fulfilled(v) == [ rejected |-> FALSE, value |-> v ]
Rejected == [ rejected |-> TRUE, value |-> Undefined ]

\* fetch(url): rejects on a network error, otherwise fulfils with the response
fetch(outcome, body) ==
    IF outcome = "rejected" THEN Rejected ELSE Fulfilled([ status |-> outcome, body |-> body ])
\* res.ok
ResponseOk(res) == res.status \in { "ok", "badJson" }
\* res.json()
ResponseJson(res) == IF res.status = "badJson" THEN Rejected ELSE Fulfilled(Some(res.body))

\* .then(res => res.ok ? res.json() : null), also the form that logs first
ThenJsonIfOk(p) ==
    IF p.rejected THEN Rejected
    ELSE IF ResponseOk(p.value) THEN ResponseJson(p.value)
    ELSE Fulfilled(Undefined)

\* a handler that lets the failure through
CatchNullMutRethrows(p) == p

\* .catch(() => null)
CatchNull(p) == IF p.rejected THEN Fulfilled(Undefined) ELSE p

\* zerionClient.getPortfolio: throws on a network error, on a status that is not
\* OK and on a body that is not JSON
getPortfolio(outcome, body) ==
    LET p == fetch(outcome, body)
    IN  IF p.rejected \/ ~ResponseOk(p.value) THEN Rejected ELSE ResponseJson(p.value)

\* Promise.all
PromiseAll(ps) ==
    IF \E i \in 1..Len(ps) : ps[i].rejected THEN Rejected
    ELSE Fulfilled([ i \in 1..Len(ps) |-> ps[i].value ])

FetchAll(u) ==
    PromiseAll(<< CatchNull(getPortfolio(u.portfolio, "portfolio")),
                  CatchNull(ThenJsonIfOk(fetch(u.pnl, SamplePnl))),
                  CatchNull(ThenJsonIfOk(fetch(u.positions, SamplePositions))),
                  CatchNull(ThenJsonIfOk(fetch(u.transactions, SampleTransactions))),
                  CatchNull(ThenJsonIfOk(fetch(u.chart30d, SampleChart))),
                  CatchNull(ThenJsonIfOk(fetch(u.chart7d, SampleChart))) >>)

WalletDataOf(values) ==
    [ portfolio |-> values[1], pnl |-> values[2], positions |-> values[3],
      transactions |-> values[4], chart30d |-> values[5], chart7d |-> values[6] ]

Requests ==
    [ address : { Undefined, Some("wallet") },
      portfolio : RequestOutcomes, pnl : RequestOutcomes, positions : RequestOutcomes,
      transactions : RequestOutcomes, chart30d : RequestOutcomes, chart7d : RequestOutcomes ]

BadRequest == [ status |-> 400, success |-> FALSE, data |-> Undefined ]
ServerError == [ status |-> 500, success |-> FALSE, data |-> Undefined ]
Success(result) == [ status |-> 200, success |-> TRUE, data |-> Some(result) ]

NoUpstream ==
    [ address |-> Undefined, portfolio |-> "ok", pnl |-> "ok", positions |-> "ok",
      transactions |-> "ok", chart30d |-> "ok", chart7d |-> "ok" ]
NoResults ==
    [ portfolio |-> Undefined, pnl |-> Undefined, positions |-> Undefined,
      transactions |-> Undefined, chart30d |-> Undefined, chart7d |-> Undefined ]
NoAnalysis == calculateWalletMetrics(NoResults)
NoResponse == [ status |-> 0, success |-> FALSE, data |-> Undefined ]

(***************************************************************************)
(* EnhancedChat (src/components/chatbot/EnhancedChat.tsx): the component   *)
(* state, the requests it has in flight and the chat requests it posted.   *)
(***************************************************************************)
\* most messages the user sends
MaxMessages == 2
\* handleInputChange detects an intent for inputs longer than this
IntentMinInputLen == 5

\* the prompts offered before the first message
SuggestedPrompts ==
    { <<"W","h","a","t","'","s"," ","t","h","e"," ","p","r","i","c","e"," ","o","f"," ","S","O","L","?">>,  \* What's the price of SOL?
      <<"C","o","m","p","a","r","e"," ","U","S","D","C"," ","v","s"," ","U","S","D","T">> }  \* Compare USDC vs USDT
\* what the user types
TypedTexts ==
    { <<"p","r","i","c","e"," ","o","f"," ","B","T","C">>,  \* price of BTC
      <<"a","l","e","r","t"," ","n","o","t","i","f","y"," ","S","O","L"," ","p","r","i","c","e">>,  \* alert notify SOL price
      <<" "," ">> }  \* blanks only
ChatTexts == SuggestedPrompts \cup TypedTexts

\* detectIntent(value) for the inputs of the model
DetectedIntentOf == [ value \in ChatTexts |-> detectIntent(value) ]

\* the intent handleInputChange stores
InputIntent(value) ==
    IF Len(value) > IntentMinInputLen THEN Some(DetectedIntentOf[value]) ELSE Undefined

\* savedIntent && savedIntent.type !== 'general' && (savedIntent.tokens || savedIntent.wallets)
WantsPanelData(savedIntent) ==
    /\ savedIntent # Undefined
    /\ savedIntent[1].type # "general"
    /\ (savedIntent[1].tokens # Undefined \/ savedIntent[1].wallets # Undefined)

\* fetchPanelData up to its first await: the request it starts, if any
PanelFetches(savedIntent, message) ==
    IF WantsPanelData(savedIntent) /\ getSuggestedDataFetches(savedIntent[1]) # <<>>
    THEN { [ kind |-> "panel", message |-> message, intent |-> savedIntent ] }
    ELSE {}

\* the data an endpoint returns for the first fetch planned for the intent
PanelDataFor(request) ==
    [ message |-> request.message,
      intent |-> request.intent[1],
      fetch |-> getSuggestedDataFetches(request.intent[1])[1] ]

\* panelData after fetchPanelData has run up to its first await
PanelDataAfterStart(panelData, savedIntent) ==
    IF WantsPanelData(savedIntent) /\ getSuggestedDataFetches(savedIntent[1]) = <<>>
    THEN Undefined ELSE panelData

\* panelLoading after handleSendMessage has called fetchPanelData
PanelLoadingAfterStart(savedIntent) ==
    ~WantsPanelData(savedIntent) \/ getSuggestedDataFetches(savedIntent[1]) # <<>>

\* a request body that carries the data of the message's own panel fetch
ChatRequestBodyMutOwnData(state, message) ==
    [ message |-> message,
      intent |-> state.currentIntent,
      jupiterData |-> IF PanelFetches(state.currentIntent, message) = {} THEN state.panelData
                      ELSE Some(PanelDataFor([ message |-> message, intent |-> state.currentIntent ])) ]

\* the body of the POST to /api/claude/chat: intent and jupiterData are the values
\* saved when handleSendMessage began
ChatRequestBody(state, message) ==
    [ message |-> message,
      intent |-> state.currentIntent,
      jupiterData |-> state.panelData ]

\* input.trim() is empty
IsBlank(value) == \A i \in 1..Len(value) : value[i] = " "

UserMessage(content) == [ role |-> "user", content |-> content ]
AssistantMessage == [ role |-> "assistant", content |-> <<"r","e","p","l","y">> ]
ErrorMessage == [ role |-> "assistant", content |-> <<"S","o","r","r","y">> ]

InitialChat ==
    [ messages |-> <<>>, input |-> <<>>, loading |-> FALSE, currentIntent |-> Undefined,
      panelData |-> Undefined, panelLoading |-> FALSE, showPanel |-> FALSE ]
NoneInFlight == {}
NonePosted == <<>>

(***************************************************************************)
(* POST /api/claude/stream (src/app/api/claude/stream/route.ts): the       *)
(* request, the chat history table and the ReadableStream of the response. *)
(* A model stream is the chunks it yields and whether it throws after      *)
(* them; each saveChatMessage call succeeds or throws (supabase.ts:45-59). *)
(***************************************************************************)
\* most chunks a model stream yields
MaxChunks == 2

\* text deltas: one may be empty, one holds a character of three bytes
Chunks == { <<>>, <<"h">>, <<"i", "U+20AC">> }

\* TextEncoder.encode: the UTF-8 bytes of a character
Utf8Bytes(char) ==
    CASE char = "h" -> <<104>>
      [] char = "i" -> <<105>>
      [] char = "U+20AC" -> <<226, 130, 172>>

RECURSIVE encode(_)
encode(text) ==
    IF text = <<>> THEN <<>> ELSE Utf8Bytes(Head(text)) \o encode(Tail(text))

RECURSIVE ChunkSequences(_)
ChunkSequences(n) ==
    IF n = 0 THEN { <<>> }
    ELSE LET shorter == ChunkSequences(n - 1)
         IN  shorter \cup { Append(s, c) : s \in { t \in shorter : Len(t) = n - 1 }, c \in Chunks }

\* what claudeClient.streamChat does for the request
ModelStreams == [ chunks : ChunkSequences(MaxChunks), throws : BOOLEAN ]

\* the fields of the request body; an absent field and an empty string are both falsy
StreamRequests ==
    [ parses : BOOLEAN,
      message : { <<>>, <<"y", "o">> },
      sessionId : { <<>>, <<"s">> },
      userId : { <<>>, <<"u">> },
      model : ModelStreams,
      userSaveFails : BOOLEAN,
      assistantSaveFails : BOOLEAN ]

\* !message || !sessionId || !userId
MissingField(body) == body.message = <<>> \/ body.sessionId = <<>> \/ body.userId = <<>>

\* the row handed to supabaseDB.saveChatMessage
ChatRow(body, role, content) ==
    [ session_id |-> body.sessionId, user_id |-> body.userId, role |-> role, content |-> content ]

\* fullResponse collected the other way round
AddChunkMutPrepends(fullResponse, chunk) == chunk \o fullResponse

\* fullResponse += chunk
AddChunk(fullResponse, chunk) == fullResponse \o chunk

StreamBadRequest == [ status |-> 400, error |-> "Message, sessionId, and userId are required" ]
StreamServerError == [ status |-> 500, error |-> "Failed to start stream" ]
StreamResponse == [ status |-> 200, error |-> "" ]

NoStreamRequest ==
    [ parses |-> FALSE, message |-> <<>>, sessionId |-> <<>>, userId |-> <<>>,
      model |-> [ chunks |-> <<>>, throws |-> FALSE ],
      userSaveFails |-> FALSE, assistantSaveFails |-> FALSE ]
\* no ReadableStream has been constructed
NoStream == [ state |-> "none", enqueued |-> <<>>, fullResponse |-> <<>>, yielded |-> 0 ]
\* the stream as start() finds it
NewStream == [ state |-> "readable", enqueued |-> <<>>, fullResponse |-> <<>>, yielded |-> 0 ]
EmptyHistory == <<>>

(***************************************************************************)
(* The calls                                                               *)
(***************************************************************************)
InitProfiler ==
    /\ pc = "categorizeWallet"
    /\ data \in WalletData
    /\ profile = NoProfile
    /\ holdings = <<>> /\ expertise = <<>>
    /\ query = NoQuery /\ locals = NoLocals /\ intent = NoIntent /\ fetches = NoFetches
    /\ upstream = NoUpstream /\ results = NoResults /\ analysis = NoAnalysis /\ response = NoResponse
    /\ chat = InitialChat /\ inflight = NoneInFlight /\ posted = NonePosted
    /\ streamRequest = NoStreamRequest /\ stream = NoStream /\ chatHistory = EmptyHistory

CategorizeWallet ==
    /\ pc = "categorizeWallet"
    /\ profile' = categorizeWallet(data)
    /\ pc' = "profiled"
    /\ UNCHANGED <<data, holdings, expertise, query, locals, intent, fetches,
                 upstream, results, analysis, response,
                 chat, inflight, posted,
                 streamRequest, stream, chatHistory>>

InitExpertise ==
    /\ pc = "analyzeExpertise"
    /\ holdings \in HoldingInputs
    /\ expertise = <<>>
    /\ data = NoData /\ profile = NoProfile
    /\ query = NoQuery /\ locals = NoLocals /\ intent = NoIntent /\ fetches = NoFetches
    /\ upstream = NoUpstream /\ results = NoResults /\ analysis = NoAnalysis /\ response = NoResponse
    /\ chat = InitialChat /\ inflight = NoneInFlight /\ posted = NonePosted
    /\ streamRequest = NoStreamRequest /\ stream = NoStream /\ chatHistory = EmptyHistory

AnalyzeExpertise ==
    /\ pc = "analyzeExpertise"
    /\ expertise' = analyzeExpertise(holdings)
    /\ pc' = "expertiseDone"
    /\ UNCHANGED <<data, profile, holdings, query, locals, intent, fetches,
                 upstream, results, analysis, response,
                 chat, inflight, posted,
                 streamRequest, stream, chatHistory>>

InitIntent ==
    /\ pc = "detectIntent"
    /\ query \in Queries
    /\ locals = NoLocals /\ intent = NoIntent /\ fetches = NoFetches
    /\ data = NoData /\ profile = NoProfile
    /\ holdings = <<>> /\ expertise = <<>>
    /\ upstream = NoUpstream /\ results = NoResults /\ analysis = NoAnalysis /\ response = NoResponse
    /\ chat = InitialChat /\ inflight = NoneInFlight /\ posted = NonePosted
    /\ streamRequest = NoStreamRequest /\ stream = NoStream /\ chatHistory = EmptyHistory

DetectIntent ==
    /\ pc = "detectIntent"
    /\ locals' = DetectLocals(query, extractTokens(query), extractWallets(query),
                               detectComparison(query), extractDApps(query))
    /\ intent' = IntentWithScores(query, ClearedTokens(query, locals'.tokens), locals'.wallets,
                                   locals'.comparison, locals'.dapps, locals'.scores)
    /\ pc' = "detected"
    /\ UNCHANGED <<data, profile, holdings, expertise, query, fetches,
                 upstream, results, analysis, response,
                 chat, inflight, posted,
                 streamRequest, stream, chatHistory>>

\* the planner applied to the intent just detected, as EnhancedChat does
PlanFetches ==
    /\ pc = "detected"
    /\ fetches' = getSuggestedDataFetches(intent)
    /\ pc' = "planned"
    /\ UNCHANGED <<data, profile, holdings, expertise, query, locals, intent,
                 upstream, results, analysis, response,
                 chat, inflight, posted,
                 streamRequest, stream, chatHistory>>

\* the planner applied to any DetectedIntent value
InitPlanner ==
    /\ pc = "getSuggestedDataFetches"
    /\ intent \in IntentValues
    /\ query = NoQuery /\ locals = NoLocals /\ fetches = NoFetches
    /\ data = NoData /\ profile = NoProfile
    /\ holdings = <<>> /\ expertise = <<>>
    /\ upstream = NoUpstream /\ results = NoResults /\ analysis = NoAnalysis /\ response = NoResponse
    /\ chat = InitialChat /\ inflight = NoneInFlight /\ posted = NonePosted
    /\ streamRequest = NoStreamRequest /\ stream = NoStream /\ chatHistory = EmptyHistory

GetSuggestedDataFetches ==
    /\ pc = "getSuggestedDataFetches"
    /\ fetches' = getSuggestedDataFetches(intent)
    /\ pc' = "fetchesReturned"
    /\ UNCHANGED <<data, profile, holdings, expertise, query, locals, intent,
                 upstream, results, analysis, response,
                 chat, inflight, posted,
                 streamRequest, stream, chatHistory>>

\* calculateWalletMetrics applied to the data of a wallet
InitMetrics ==
    /\ pc = "calculateWalletMetrics"
    /\ results \in MetricsInputs
    /\ upstream = NoUpstream /\ analysis = NoAnalysis /\ response = NoResponse
    /\ data = NoData /\ profile = NoProfile
    /\ holdings = <<>> /\ expertise = <<>>
    /\ query = NoQuery /\ locals = NoLocals /\ intent = NoIntent /\ fetches = NoFetches
    /\ chat = InitialChat /\ inflight = NoneInFlight /\ posted = NonePosted
    /\ streamRequest = NoStreamRequest /\ stream = NoStream /\ chatHistory = EmptyHistory

\* a GET request and the way each of its six upstream requests will end
InitWalletAnalysis ==
    /\ pc = "GET"
    /\ upstream \in Requests
    /\ results = NoResults /\ analysis = NoAnalysis /\ response = NoResponse
    /\ data = NoData /\ profile = NoProfile
    /\ holdings = <<>> /\ expertise = <<>>
    /\ query = NoQuery /\ locals = NoLocals /\ intent = NoIntent /\ fetches = NoFetches
    /\ chat = InitialChat /\ inflight = NoneInFlight /\ posted = NonePosted
    /\ streamRequest = NoStreamRequest /\ stream = NoStream /\ chatHistory = EmptyHistory

\* GET up to the end of its await Promise.all: 400 without an address, the catch
\* block when the batch rejects, otherwise on to calculateWalletMetrics
AwaitRequests ==
    /\ pc = "GET"
    /\ IF upstream.address = Undefined
       THEN response' = BadRequest /\ pc' = "responded" /\ UNCHANGED results
       ELSE IF FetchAll(upstream).rejected
       THEN response' = ServerError /\ pc' = "responded" /\ UNCHANGED results
       ELSE /\ results' = WalletDataOf(FetchAll(upstream).value)
            /\ pc' = "calculateWalletMetrics"
            /\ UNCHANGED response
    /\ UNCHANGED <<data, profile, holdings, expertise, query, locals, intent, fetches,
                   upstream, analysis,
                 chat, inflight, posted,
                 streamRequest, stream, chatHistory>>

CalculateWalletMetrics ==
    /\ pc = "calculateWalletMetrics"
    /\ analysis' = calculateWalletMetrics(results)
    /\ pc' = "analysed"
    /\ UNCHANGED <<data, profile, holdings, expertise, query, locals, intent, fetches,
                   upstream, results, response,
                 chat, inflight, posted,
                 streamRequest, stream, chatHistory>>

\* GET after calculateWalletMetrics has returned
RespondWithAnalysis ==
    /\ pc = "analysed"
    /\ upstream.address # Undefined
    /\ response' = Success(analysis)
    /\ pc' = "responded"
    /\ UNCHANGED <<data, profile, holdings, expertise, query, locals, intent, fetches,
                   upstream, results, analysis,
                 chat, inflight, posted,
                 streamRequest, stream, chatHistory>>

InitChat ==
    /\ pc = "chat"
    /\ chat = InitialChat /\ inflight = NoneInFlight /\ posted = NonePosted
    /\ upstream = NoUpstream /\ results = NoResults /\ analysis = NoAnalysis
    /\ response = NoResponse
    /\ data = NoData /\ profile = NoProfile
    /\ holdings = <<>> /\ expertise = <<>>
    /\ query = NoQuery /\ locals = NoLocals /\ intent = NoIntent /\ fetches = NoFetches
    /\ streamRequest = NoStreamRequest /\ stream = NoStream /\ chatHistory = EmptyHistory

ChatUnchanged ==
    UNCHANGED <<pc, data, profile, holdings, expertise, query, locals, intent, fetches,
                upstream, results, analysis, response,
                 streamRequest, stream, chatHistory>>

\* handleInputChange: the input field is disabled while a message is loading
HandleInputChange ==
    /\ pc = "chat"
    /\ ~chat.loading
    /\ \E value \in ChatTexts :
          chat' = [chat EXCEPT !.input = value, !.currentIntent = InputIntent(value)]
    /\ UNCHANGED <<inflight, posted>>
    /\ ChatUnchanged

\* handleSuggestedPrompt: the prompts are rendered while there are no messages
HandleSuggestedPrompt ==
    /\ pc = "chat"
    /\ chat.messages = <<>>
    /\ \E prompt \in SuggestedPrompts :
          chat' = [chat EXCEPT !.input = prompt, !.currentIntent = InputIntent(prompt)]
    /\ UNCHANGED <<inflight, posted>>
    /\ ChatUnchanged

\* handleSendMessage up to its await of the chat request, with the part of
\* fetchPanelData that runs before its own await
HandleSendMessage ==
    /\ pc = "chat"
    /\ ~chat.loading
    /\ ~IsBlank(chat.input)
    /\ Len(posted) < MaxMessages
    /\ LET savedIntent == chat.currentIntent
           message == Len(posted) + 1
       IN  /\ chat' = [chat EXCEPT
                  !.messages = Append(@, UserMessage(chat.input)),
                  !.input = <<>>,
                  !.loading = TRUE,
                  !.showPanel = FALSE,
                  !.panelLoading = PanelLoadingAfterStart(savedIntent),
                  !.panelData = PanelDataAfterStart(@, savedIntent)]
           /\ inflight' = inflight \cup PanelFetches(savedIntent, message)
                  \cup { [ kind |-> "chat", message |-> message, intent |-> savedIntent ] }
           /\ posted' = Append(posted, ChatRequestBody(chat, message))
    /\ ChatUnchanged

\* fetchPanelData from its await on: the response is stored whichever message
\* the fetch was started for
PanelFetchSettles ==
    /\ pc = "chat"
    /\ \E request \in inflight, outcome \in RequestOutcomes :
          /\ request.kind = "panel"
          /\ chat' = [chat EXCEPT
                 !.panelData = IF outcome = "ok" THEN Some(PanelDataFor(request))
                               ELSE Undefined,
                 !.panelLoading = FALSE]
          /\ inflight' = inflight \ {request}
    /\ UNCHANGED posted
    /\ ChatUnchanged

\* handleSendMessage from its await on: the reply and the timer that will show
\* the panel, or the catch block
ChatRequestSettles ==
    /\ pc = "chat"
    /\ \E request \in inflight, outcome \in RequestOutcomes :
          /\ request.kind = "chat"
          /\ IF outcome = "ok"
             THEN /\ chat' = [chat EXCEPT !.messages = Append(@, AssistantMessage),
                                          !.loading = FALSE]
                  /\ inflight' = (inflight \ {request})
                         \cup { [ kind |-> "timer", message |-> request.message,
                                  intent |-> request.intent ] }
             ELSE /\ chat' = [chat EXCEPT !.messages = Append(@, ErrorMessage),
                                          !.panelData = Undefined,
                                          !.currentIntent = Undefined,
                                          !.showPanel = FALSE,
                                          !.panelLoading = FALSE,
                                          !.loading = FALSE]
                  /\ inflight' = inflight \ {request}
    /\ UNCHANGED posted
    /\ ChatUnchanged

\* the setTimeout callback of handleSendMessage
ShowPanelTimerFires ==
    /\ pc = "chat"
    /\ \E timer \in inflight :
          /\ timer.kind = "timer"
          /\ chat' = [chat EXCEPT !.currentIntent = timer.intent,
                                  !.showPanel = TRUE,
                                  !.panelLoading = FALSE]
          /\ inflight' = inflight \ {timer}
    /\ UNCHANGED posted
    /\ ChatUnchanged

InitStream ==
    /\ pc = "POST"
    /\ streamRequest \in StreamRequests
    /\ stream = NoStream /\ chatHistory = EmptyHistory
    /\ chat = InitialChat /\ inflight = NoneInFlight /\ posted = NonePosted
    /\ upstream = NoUpstream /\ results = NoResults /\ analysis = NoAnalysis
    /\ response = NoResponse
    /\ data = NoData /\ profile = NoProfile
    /\ holdings = <<>> /\ expertise = <<>>
    /\ query = NoQuery /\ locals = NoLocals /\ intent = NoIntent /\ fetches = NoFetches

StreamUnchanged ==
    UNCHANGED <<data, profile, holdings, expertise, query, locals, intent, fetches,
                upstream, results, analysis, chat, inflight, posted, streamRequest>>

\* POST up to its return: the body is parsed and validated, the user message
\* saved, the ReadableStream constructed and handed to the response; a throw
\* before the return is answered by the outer catch
PostStream ==
    /\ pc = "POST"
    /\ IF ~streamRequest.parses
       THEN /\ response' = StreamServerError
            /\ pc' = "returned"
            /\ UNCHANGED <<stream, chatHistory>>
       ELSE IF MissingField(streamRequest)
       THEN /\ response' = StreamBadRequest
            /\ pc' = "returned"
            /\ UNCHANGED <<stream, chatHistory>>
       ELSE IF streamRequest.userSaveFails
       THEN /\ response' = StreamServerError
            /\ pc' = "returned"
            /\ UNCHANGED <<stream, chatHistory>>
       ELSE /\ chatHistory' = Append(chatHistory,
                                     ChatRow(streamRequest, "user", streamRequest.message))
            /\ stream' = NewStream
            /\ response' = StreamResponse
            /\ pc' = "streaming"
    /\ StreamUnchanged

\* one turn of the for await loop of start(): the next chunk is added to
\* fullResponse and enqueued, or the model stream throws and the catch block
\* puts the stream in the error state, or the loop ends
NextChunk ==
    /\ pc = "streaming"
    /\ LET model == streamRequest.model
       IN  IF stream.yielded < Len(model.chunks)
           THEN LET chunk == model.chunks[stream.yielded + 1]
                IN  /\ stream' = [stream EXCEPT
                           !.fullResponse = AddChunk(@, chunk),
                           !.enqueued = Append(@, encode(chunk)),
                           !.yielded = @ + 1]
                    /\ pc' = "streaming"
           ELSE IF model.throws
           THEN /\ stream' = [stream EXCEPT !.state = "errored"]
                /\ pc' = "finished"
           ELSE /\ stream' = stream
                /\ pc' = "saving"
    /\ UNCHANGED <<chatHistory, response>>
    /\ StreamUnchanged

\* the await of saveChatMessage for the assistant message: the row is
\* inserted, or the call throws and the catch block errors the stream
SaveFullResponse ==
    /\ pc = "saving"
    /\ IF streamRequest.assistantSaveFails
       THEN /\ stream' = [stream EXCEPT !.state = "errored"]
            /\ pc' = "finished"
            /\ UNCHANGED chatHistory
       ELSE /\ chatHistory' = Append(chatHistory,
                                     ChatRow(streamRequest, "assistant", stream.fullResponse))
            /\ pc' = "saved"
            /\ UNCHANGED stream
    /\ UNCHANGED response
    /\ StreamUnchanged

\* controller.close()
CloseStream ==
    /\ pc = "saved"
    /\ stream' = [stream EXCEPT !.state = "closed"]
    /\ pc' = "finished"
    /\ UNCHANGED <<chatHistory, response>>
    /\ StreamUnchanged

SpecIntent == InitIntent /\ [][DetectIntent \/ PlanFetches]_vars
SpecPlanner == InitPlanner /\ [][GetSuggestedDataFetches]_vars
SpecProfiler == InitProfiler /\ [][CategorizeWallet]_vars
SpecExpertise == InitExpertise /\ [][AnalyzeExpertise]_vars
SpecMetrics == InitMetrics /\ [][CalculateWalletMetrics]_vars
SpecWalletAnalysis ==
    InitWalletAnalysis /\ [][AwaitRequests \/ CalculateWalletMetrics \/ RespondWithAnalysis]_vars
SpecChat ==
    InitChat /\ [][HandleInputChange \/ HandleSuggestedPrompt \/ HandleSendMessage
                   \/ PanelFetchSettles \/ ChatRequestSettles \/ ShowPanelTimerFires]_vars
SpecStream ==
    InitStream /\ [][PostStream \/ NextChunk \/ SaveFullResponse \/ CloseStream]_vars

Init ==
    \/ InitProfiler \/ InitExpertise \/ InitIntent \/ InitPlanner
    \/ InitMetrics \/ InitWalletAnalysis \/ InitChat \/ InitStream
Next ==
    \/ CategorizeWallet
    \/ AnalyzeExpertise
    \/ DetectIntent
    \/ PlanFetches
    \/ GetSuggestedDataFetches
    \/ AwaitRequests
    \/ CalculateWalletMetrics
    \/ RespondWithAnalysis
    \/ HandleInputChange
    \/ HandleSuggestedPrompt
    \/ HandleSendMessage
    \/ PanelFetchSettles
    \/ ChatRequestSettles
    \/ ShowPanelTimerFires
    \/ PostStream
    \/ NextChunk
    \/ SaveFullResponse
    \/ CloseStream
Spec == Init /\ [][Next]_vars

(***************************************************************************)
(* Properties of the wallet profiler                                       *)
(***************************************************************************)

\* C1: whenever portfolioValue > 1,000,000, categorizeWallet returns category
\* Whale with confidence 90, whatever the other five fields are.
C1_WhaleAboveOneMillion ==
    (pc = "profiled" /\ data.portfolioValue > 1000000)
        => (profile.category = "Whale" /\ profile.confidence = 90)

\* a whale whose other fields satisfy the bot rule, with non-empty lists
C1_Witness ==
    /\ pc = "profiled"
    /\ data.portfolioValue > 1000000
    /\ data.tradingFrequency = "Very Active"
    /\ data.diversificationScore < 30
    /\ data.totalTransactions > 100
    /\ data.topHoldings # <<>> /\ data.recentActivity # <<>>
    /\ profile.category = "Whale" /\ profile.confidence = 90

\* the ordered rule list of the specification, as (condition, category, confidence)
C7_ReferenceRules(d) ==
    << [when |-> d.portfolioValue > 1000000, category |-> "Whale", confidence |-> 90],
       [when |-> d.tradingFrequency = "Very Active" /\ d.diversificationScore < 30
                    /\ d.totalTransactions > 100,
        category |-> "Bot", confidence |-> 75],
       [when |-> d.diversificationScore < 40 /\ d.tradingFrequency # "Passive",
        category |-> "Degen", confidence |-> 70],
       [when |-> d.tradingFrequency = "Passive" /\ d.totalTransactions < 20,
        category |-> "HODLer", confidence |-> 80],
       [when |-> d.diversificationScore > 60 /\ d.totalTransactions > 30,
        category |-> "Smart Trader", confidence |-> 75],
       [when |-> TRUE, category |-> "Casual", confidence |-> 0] >>

C7_FirstMatch(d) ==
    LET rules == C7_ReferenceRules(d)
        first == CHOOSE i \in 1..Len(rules) :
                    rules[i].when /\ \A j \in 1..(i - 1) : ~rules[j].when
    IN  <<rules[first].category, rules[first].confidence>>

\* C7: for every input the returned (category, confidence) is that of the first
\* matching rule of the reference list Whale, Bot, Degen, HODLer, Smart Trader, Casual.
C7_FirstMatchingRuleWins ==
    pc = "profiled" => <<profile.category, profile.confidence>> = C7_FirstMatch(data)

\* an input on which both the bot rule and the degen rule match: the earlier one wins
C7_Witness ==
    /\ pc = "profiled"
    /\ data.portfolioValue <= 1000000
    /\ data.tradingFrequency = "Very Active"
    /\ data.diversificationScore < 30
    /\ data.totalTransactions > 100
    /\ profile.category = "Bot" /\ profile.confidence = 75

\* C8: riskProfile is Aggressive when the score is < 40 or the category is Degen,
\* otherwise Conservative when the score is > 70 or the category is HODLer, otherwise
\* Moderate; a HODLer with a score < 40 is Aggressive.
C8_RiskProfileLadder ==
    pc = "profiled" =>
        /\ profile.riskProfile =
              (IF data.diversificationScore < 40 \/ profile.category = "Degen"
               THEN "Aggressive"
               ELSE IF data.diversificationScore > 70 \/ profile.category = "HODLer"
               THEN "Conservative"
               ELSE "Moderate")
        /\ (profile.category = "HODLer" /\ data.diversificationScore < 40)
              => profile.riskProfile = "Aggressive"

\* a HODLer with a score under 40
C8_Witness ==
    /\ pc = "profiled"
    /\ profile.category = "HODLer"
    /\ data.diversificationScore < 40
    /\ profile.riskProfile = "Aggressive"

\* C9: with portfolioValue <= 1,000,000, frequency Passive and fewer than 20
\* transactions the profile is HODLer with confidence 80, and Conservative whenever
\* the score is >= 40.
C9_PassiveSmallWalletIsHodler ==
    (/\ pc = "profiled"
     /\ data.portfolioValue <= 1000000
     /\ data.tradingFrequency = "Passive"
     /\ data.totalTransactions < 20)
        => /\ profile.category = "HODLer"
           /\ profile.confidence = 80
           /\ data.diversificationScore >= 40 => profile.riskProfile = "Conservative"

\* the scenario of the specification: 50000, 5 transactions, Passive, score 80
C9_Witness ==
    /\ pc = "profiled"
    /\ data.portfolioValue = 50000
    /\ data.totalTransactions = 5
    /\ data.tradingFrequency = "Passive"
    /\ data.diversificationScore = 80
    /\ profile.category = "HODLer"
    /\ profile.riskProfile = "Conservative"
    /\ profile.confidence = 80

(***************************************************************************)
(* Properties of analyzeExpertise                                          *)
(***************************************************************************)
Range(seq) == { seq[i] : i \in 1..Len(seq) }

RECURSIVE C5_Sum(_, _)
C5_Sum(f, S) ==
    IF S = {} THEN 0 ELSE LET x == CHOOSE y \in S : TRUE IN f[x] + C5_Sum(f, S \ {x})

C5_Categories == UNION { Range(holdings[i].categories) : i \in DOMAIN holdings }
C5_Total == C5_Sum([i \in DOMAIN holdings |-> holdings[i].value], DOMAIN holdings)
\* how often a holding's category list names the category
C5_Times(i, c) ==
    Cardinality({ k \in DOMAIN holdings[i].categories : holdings[i].categories[k] = c })
\* the value summed for a category and the number of times it is counted: once per
\* entry of a holding's category list that names it
C5_Value(c) ==
    C5_Sum([i \in DOMAIN holdings |-> C5_Times(i, c) * holdings[i].value], DOMAIN holdings)
C5_Count(c) == C5_Sum([i \in DOMAIN holdings |-> C5_Times(i, c)], DOMAIN holdings)
C5_ExactlyTwentyPercent(c) == C5_Total > 0 /\ C5_Value(c) * 5 = C5_Total
C5_Passes(c) == C5_Value(c) * 5 > C5_Total \/ C5_Count(c) >= 3
\* position of the first holding that carries the category, then its place in that holding
C5_FirstSeen(c) ==
    LET i == CHOOSE k \in DOMAIN holdings :
                /\ c \in Range(holdings[k].categories)
                /\ \A j \in 1..(k - 1) : c \notin Range(holdings[j].categories)
        p == CHOOSE k \in DOMAIN holdings[i].categories :
                /\ holdings[i].categories[k] = c
                /\ \A j \in 1..(k - 1) : holdings[i].categories[j] # c
    IN  <<i, p>>
C5_Before(a, b) ==
    \/ C5_FirstSeen(a)[1] < C5_FirstSeen(b)[1]
    \/ C5_FirstSeen(a)[1] = C5_FirstSeen(b)[1] /\ C5_FirstSeen(a)[2] < C5_FirstSeen(b)[2]
\* among the three categories of highest summed value, ties going to the one seen first
C5_InTopThree(c) ==
    Cardinality({ o \in C5_Categories \ {c} :
                    \/ C5_Value(o) > C5_Value(c)
                    \/ C5_Value(o) = C5_Value(c) /\ C5_Before(o, c) }) < 3

\* C5 as stated: a category whose summed value is exactly 20% of the total is in the
\* returned list, for every holdings list.
C5_ExactlyTwentyIncluded ==
    pc = "expertiseDone" =>
        \A c \in C5_Categories : C5_ExactlyTwentyPercent(c) => c \in Range(expertise)

\* C5 amended: the value test is strict, so a category at exactly 20% is in the
\* returned list if and only if it is counted at least 3 times (once per entry of a
\* holding's category list), or no category passes either test and it is among the
\* 3 categories of highest summed value (ties going to the category seen first).
C5_ExactlyTwentyAmended ==
    pc = "expertiseDone" =>
        \A c \in C5_Categories :
            C5_ExactlyTwentyPercent(c) =>
                (c \in Range(expertise) <=>
                    \/ C5_Count(c) >= 3
                    \/ /\ \A o \in C5_Categories : ~C5_Passes(o)
                       /\ C5_InTopThree(c))

\* a category at exactly 20%, counted fewer than 3 times, left out because another
\* category is over 20%
C5_Witness ==
    /\ pc = "expertiseDone"
    /\ \E c \in C5_Categories :
          /\ C5_ExactlyTwentyPercent(c)
          /\ C5_Count(c) < 3
          /\ \E o \in C5_Categories : C5_Value(o) * 5 > C5_Total
          /\ c \notin Range(expertise)

(***************************************************************************)
(* Properties of the intent detector                                       *)
(***************************************************************************)
Detected == pc \in {"detected", "planned"}

\* the query cut at its white space
RECURSIVE C2_Split(_, _)
C2_Split(q, word) ==
    IF q = <<>> THEN (IF word = <<>> THEN <<>> ELSE <<word>>)
    ELSE IF q[1] \in {" ", "\t", "\n"}
    THEN (IF word = <<>> THEN <<>> ELSE <<word>>) \o C2_Split(Tail(q), <<>>)
    ELSE C2_Split(Tail(q), Append(word, q[1]))
C2_Words == C2_Split(query, <<>>)
C2_WordChar(c) == c \in WordChars
\* the longest run of word characters a piece of text starts with, and ends with
RECURSIVE C2_LeadingWord(_)
C2_LeadingWord(w) ==
    IF w = <<>> \/ ~C2_WordChar(w[1]) THEN <<>> ELSE <<w[1]>> \o C2_LeadingWord(Tail(w))
RECURSIVE C2_TrailingWord(_)
C2_TrailingWord(w) ==
    IF w = <<>> \/ ~C2_WordChar(w[Len(w)]) THEN <<>>
    ELSE Append(C2_TrailingWord(SubSeq(w, 1, Len(w) - 1)), w[Len(w)])
C2_IsWord(w) == w # <<>> /\ C2_LeadingWord(w) = w
C2_Lower(w) == [ i \in 1..Len(w) |-> LowerChar(w[i]) ]
C2_EndsWith(w, tail) ==
    Len(w) >= Len(tail) /\ SubSeq(w, Len(w) - Len(tail) + 1, Len(w)) = tail

\* "X vs Y" or "X versus Y" with the separator as word k of the query
C2_VsAt(k) ==
    /\ k > 1 /\ k < Len(C2_Words)
    /\ C2_Lower(C2_Words[k]) \in { <<"v","s">>, <<"v","e","r","s","u","s">> }
    /\ C2_TrailingWord(C2_Words[k - 1]) # <<>>
    /\ C2_LeadingWord(C2_Words[k + 1]) # <<>>
C2_VsPair(k) ==
    [from |-> C2_TrailingWord(C2_Words[k - 1]), to |-> C2_LeadingWord(C2_Words[k + 1])]

\* "compare X and Y" (the code also takes "to" and "with") with compare as word k
C2_CompareAt(k, links) ==
    /\ k >= 1 /\ k + 3 <= Len(C2_Words)
    /\ C2_EndsWith(C2_Lower(C2_Words[k]), <<"c","o","m","p","a","r","e">>)
    /\ C2_IsWord(C2_Words[k + 1])
    /\ C2_Lower(C2_Words[k + 2]) \in links
    /\ C2_LeadingWord(C2_Words[k + 3]) # <<>>
C2_ComparePair(k) == [from |-> C2_Words[k + 1], to |-> C2_LeadingWord(C2_Words[k + 3])]
C2_And == { <<"a","n","d">> }
C2_Links == { <<"a","n","d">>, <<"t","o">>, <<"w","i","t","h">> }
C2_Positions == 1..Len(C2_Words)

\* C2 as stated: for every "X vs Y", "X versus Y" or "compare X and Y" in the query
\* the type is comparison and comparison.from / to are that X and that Y.
C2_EveryPatternIsTheComparison ==
    Detected =>
        /\ \A k \in C2_Positions :
              C2_VsAt(k) => (intent.type = "comparison" /\ intent.comparison = Some(C2_VsPair(k)))
        /\ \A k \in C2_Positions :
              C2_CompareAt(k, C2_And) =>
                 (intent.type = "comparison" /\ intent.comparison = Some(C2_ComparePair(k)))

\* C2 amended: a query that contains "X vs Y", "X versus Y" or "compare X and|to|with Y"
\* (X and Y maximal runs of word characters, set off by white space) has type
\* comparison whatever the scores; comparison.from / to are X and Y of the leftmost
\* "vs" / "versus" occurrence when there is one, and otherwise of the leftmost
\* "compare" occurrence.
C2_LeftmostPatternIsTheComparison ==
    Detected =>
        LET vs == { k \in C2_Positions : C2_VsAt(k) }
            cmp == { k \in C2_Positions : C2_CompareAt(k, C2_Links) }
            first(S) == CHOOSE k \in S : \A j \in S : k <= j
        IN  /\ (vs # {} \/ cmp # {}) => intent.type = "comparison"
            /\ vs # {} => intent.comparison = Some(C2_VsPair(first(vs)))
            /\ (vs = {} /\ cmp # {}) => intent.comparison = Some(C2_ComparePair(first(cmp)))

\* a query with an "X vs Y" in which another category has the highest score
C2_Witness ==
    /\ Detected
    /\ \E k \in C2_Positions : C2_VsAt(k)
    /\ ScoreWinner(query).type # "comparison"
    /\ intent.type = "comparison"
    /\ intent.comparison # Undefined

\* the base58 alphabet: no 0, O, I and l
C3_Base58Alphabet == (DigitChars \cup UpperChars \cup LowerChars) \ { "0", "O", "I", "l" }
\* the maximal runs of base58 characters of the query, as <<first, last>> positions
C3_Runs ==
    { r \in (1..Len(query)) \X (1..Len(query)) :
        /\ r[1] <= r[2]
        /\ \A i \in r[1]..r[2] : query[i] \in C3_Base58Alphabet
        /\ (r[1] = 1 \/ query[r[1] - 1] \notin C3_Base58Alphabet)
        /\ (r[2] = Len(query) \/ query[r[2] + 1] \notin C3_Base58Alphabet) }

\* C3: every run of 32 to 44 base58 characters of the query is among the wallets
\* of the detected intent.
C3_AddressRunsAreWallets ==
    Detected =>
        \A r \in C3_Runs :
            (r[2] - r[1] + 1 >= 32 /\ r[2] - r[1] + 1 <= 44) =>
                /\ intent.wallets # Undefined
                /\ \E i \in 1..Len(intent.wallets[1]) :
                      intent.wallets[1][i] = SubSeq(query, r[1], r[2])

C4_Query == <<"W","h","a","t","'","s"," ","t","h","e"," ","p","r","i","c","e"," ","o","f"," ","S","O","L","?">>

\* C4: "What's the price of SOL?" is detected as type token with tokens exactly
\* ["SOL"] and a confidence > 0, and the planner returns exactly one descriptor, for
\* the token-search endpoint with query=SOL.
C4_PriceOfSolScenario ==
    (query = C4_Query /\ pc = "planned") =>
        /\ intent.type = "token"
        /\ intent.tokens = Some(<< <<"S","O","L">> >>)
        /\ intent.confidence > 0
        /\ fetches = << [endpoint |-> "/api/zerion/token-search", param |-> "query",
                         value |-> <<"S","O","L">>] >>

(***************************************************************************)
(* Properties of the data-fetch planner                                    *)
(***************************************************************************)

\* C10: an intent of type market, alert or general yields no fetch descriptor,
\* whatever tokens, wallets, dapps and comparison it carries.
C10_NoFetchesForMarketAlertGeneral ==
    (pc = "fetchesReturned" /\ intent.type \in {"market", "alert", "general"})
        => fetches = <<>>

\* such an intent that carries every kind of entity
C10_Witness ==
    /\ pc = "fetchesReturned"
    /\ intent.type \in {"market", "alert", "general"}
    /\ intent.tokens # Undefined /\ intent.wallets # Undefined
    /\ intent.dapps # Undefined /\ intent.comparison # Undefined
    /\ fetches = <<>>

\* C11: for every intent of type comparison that detectIntent produces, the planner
\* returns exactly two descriptors, both for the token-search endpoint, the first
\* with query = comparison.from and the second with query = comparison.to, and
\* nothing for the tokens, wallets and dapps of the intent.
C11_ComparisonFetchesBothSides ==
    (pc = "planned" /\ intent.type = "comparison") =>
        /\ intent.comparison # Undefined
        /\ fetches = << [endpoint |-> "/api/zerion/token-search", param |-> "query",
                         value |-> intent.comparison[1].from],
                        [endpoint |-> "/api/zerion/token-search", param |-> "query",
                         value |-> intent.comparison[1].to] >>

\* C12: for an intent of type token, wallet or dapp the planner returns one
\* descriptor per element of tokens, wallets or dapps respectively, in list order
\* (token-search with query, /api/solana/wallet with address, dapp-info with
\* search), nothing when that field is absent, and nothing for the other entities.
C12_OneFetchPerEntityOfTheType ==
    pc = "fetchesReturned" =>
        /\ intent.type = "token" =>
              /\ Len(fetches) = (IF intent.tokens = Undefined THEN 0 ELSE Len(intent.tokens[1]))
              /\ \A i \in 1..Len(fetches) :
                    fetches[i] = [endpoint |-> "/api/zerion/token-search", param |-> "query",
                                  value |-> intent.tokens[1][i]]
        /\ intent.type = "wallet" =>
              /\ Len(fetches) = (IF intent.wallets = Undefined THEN 0 ELSE Len(intent.wallets[1]))
              /\ \A i \in 1..Len(fetches) :
                    fetches[i] = [endpoint |-> "/api/solana/wallet", param |-> "address",
                                  value |-> intent.wallets[1][i]]
        /\ intent.type = "dapp" =>
              /\ Len(fetches) = (IF intent.dapps = Undefined THEN 0 ELSE Len(intent.dapps[1]))
              /\ \A i \in 1..Len(fetches) :
                    fetches[i] = [endpoint |-> "/api/zerion/dapp-info", param |-> "search",
                                  value |-> intent.dapps[1][i]]

\* a token intent with two tokens that also carries wallets, dapps and a comparison
C12_Witness ==
    /\ pc = "fetchesReturned"
    /\ intent.type = "token"
    /\ intent.tokens # Undefined /\ Len(intent.tokens[1]) = 2
    /\ intent.tokens[1][1] # intent.tokens[1][2]
    /\ intent.wallets # Undefined /\ intent.dapps # Undefined /\ intent.comparison # Undefined
    /\ Len(fetches) = 2

(***************************************************************************)
(* Properties of the scores of detectIntent                                *)
(***************************************************************************)
\* the seven categories, in the order of the score table
CategoryOrder == <<"token", "wallet", "market", "comparison", "alert", "dapp", "general">>
Categories == { CategoryOrder[i] : i \in 1..Len(CategoryOrder) }
NoPatternMatched == locals.comparison = Undefined
HighestScore == CHOOSE m \in { locals.scores[t] : t \in Categories } :
                    \A t \in Categories : locals.scores[t] <= m

\* C13: when no comparison pattern matches, the type is a category whose boosted
\* score is the maximum over all categories, and it is general exactly when no
\* category has a score greater than 0, that is when no keyword was hit and no
\* entity boost applied; the empty string yields type general, confidence 0 and no
\* tokens, wallets or dapps.
C13_TypeIsAnArgmaxOrGeneral ==
    Detected =>
        /\ NoPatternMatched =>
              /\ intent.type \in Categories
              /\ locals.scores[intent.type] = HighestScore
              /\ (intent.type = "general") <=> (\A t \in Categories : locals.scores[t] <= 0)
              /\ (intent.type = "general") <=>
                    /\ \A t \in Categories : locals.keywordScores[t] = 0
                    /\ intent.tokens = Undefined /\ intent.wallets = Undefined
                    /\ intent.dapps = Undefined
        /\ query = <<>> =>
              /\ intent.type = "general" /\ intent.confidence = 0
              /\ intent.tokens = Undefined /\ intent.wallets = Undefined
              /\ intent.dapps = Undefined

\* no pattern matched and two categories have different scores above 0
C13_Witness ==
    /\ Detected /\ NoPatternMatched
    /\ intent.type # "general"
    /\ \E t \in Categories : locals.scores[t] > 0 /\ locals.scores[t] < locals.scores[intent.type]

\* the categories that share the highest score, and the first of them in the order
\* token, wallet, market, comparison, alert, dapp, general
C14_Tied == { t \in Categories : locals.scores[t] = HighestScore }
C14_FirstTied ==
    CategoryOrder[CHOOSE i \in 1..Len(CategoryOrder) :
                    /\ CategoryOrder[i] \in C14_Tied
                    /\ \A j \in 1..(i - 1) : CategoryOrder[j] \notin C14_Tied]

\* C14 as stated: when several categories share the maximum boosted score and no
\* comparison pattern matched, the type is the first of them in the order token,
\* wallet, market, comparison, alert, dapp, general.
C14_FirstOfTheTiedWins ==
    (Detected /\ NoPatternMatched /\ Cardinality(C14_Tied) > 1) => intent.type = C14_FirstTied

\* C14 amended: when several categories share the maximum boosted score, that score
\* is greater than 0 and no comparison pattern matched, the type is the first of
\* them in the order token, wallet, market, comparison, alert, dapp; when the
\* maximum is 0, which all seven categories then share, the type is general.
C14_FirstOfTheTiedWinsAboveZero ==
    (Detected /\ NoPatternMatched /\ Cardinality(C14_Tied) > 1) =>
        /\ HighestScore > 0 => intent.type = C14_FirstTied
        /\ HighestScore = 0 => (C14_Tied = Categories /\ intent.type = "general")

\* two categories share a maximum above 0
C14_Witness ==
    /\ Detected /\ NoPatternMatched
    /\ Cardinality(C14_Tied) > 1
    /\ HighestScore > 0
    /\ intent.type = C14_FirstTied

\* C15: the confidence is min(1, the maximum boosted score over the seven
\* categories), hence within [0, 1]; when the type is overridden to comparison it
\* is still that maximum, not the score of the comparison category.
C15_ConfidenceIsTheClampedMaximum ==
    Detected =>
        /\ intent.confidence = (IF HighestScore > ScoreUnit THEN ScoreUnit ELSE HighestScore)
        /\ intent.confidence >= 0 /\ intent.confidence <= ScoreUnit

\* the type was overridden to comparison while another category has the maximum
C15_Witness ==
    /\ Detected
    /\ ~NoPatternMatched /\ intent.type = "comparison"
    /\ locals.scores["comparison"] < HighestScore
    /\ intent.confidence = HighestScore

\* a query whose maximum is above 1
C15_Saturated == Detected /\ HighestScore > ScoreUnit /\ intent.confidence = ScoreUnit

\* a + b on doubles, in units of 1/ScoreUnit: 6/10 + 0.3 is the double below 0.9,
\* 2/10 + 0.4 and 8/10 + 0.4 are the doubles above 0.6 and 1.2, every other sum
\* of a keyword score and a boost is the double of the exact sum
C16_Plus(category, score, boost) ==
    score + boost
      + (IF category = "wallet" /\ score = (6 * ScoreUnit) \div 10 THEN 0 - 1
         ELSE IF category = "dapp" /\ score \in { (2 * ScoreUnit) \div 10, (8 * ScoreUnit) \div 10 }
         THEN 1 ELSE 0)
\* the score of a category is its keyword score, plus the boost when it applies
C16_Boosted(category, applies, tenths) ==
    locals.scores[category] =
        (IF applies THEN C16_Plus(category, locals.keywordScores[category], (tenths * ScoreUnit) \div 10)
         ELSE locals.keywordScores[category])
C16_HasAlert ==
    \E i \in 1..(Len(query) - 4) :
        [ k \in 1..5 |-> LowerChar(query[i + k - 1]) ] = <<"a","l","e","r","t">>
C16_OtherBoosts ==
    /\ C16_Boosted("wallet", locals.wallets # <<>>, 3)
    /\ C16_Boosted("comparison", locals.comparison # Undefined, 3)
    /\ C16_Boosted("dapp", locals.dapps # <<>>, 4)
    /\ C16_Boosted("alert", C16_HasAlert, 2)
    /\ C16_Boosted("market", FALSE, 0)
    /\ C16_Boosted("general", FALSE, 0)

\* C16 as stated: +0.3 to token whenever the token extractor finds a token in the
\* query, +0.3 to wallet whenever a wallet is extracted, +0.3 to comparison whenever
\* a comparison pattern matched, +0.4 to dapp whenever a DApp name matched, +0.2 to
\* alert whenever the query contains "alert", and no other adjustment.
C16_BoostsFollowTheExtractors ==
    Detected => (C16_Boosted("token", locals.tokens # <<>>, 3) /\ C16_OtherBoosts)

\* C16 amended: as stated, but +0.3 to token whenever the token extractor finds a
\* token in the query and the query is not a market query (its lower case contains
\* none of "trend", "overall market", "crypto market", "market sentiment",
\* "gainers", "losers", "market cap ranking", "market dominance"), that is whenever
\* the returned intent carries tokens.
C16_BoostsFollowTheKeptEntities ==
    Detected =>
        /\ C16_Boosted("token", locals.tokens # <<>> /\ ~isMarketQuery(toLowerCase(query)), 3)
        /\ (locals.tokens # <<>> /\ ~isMarketQuery(toLowerCase(query))) <=> intent.tokens # Undefined
        /\ C16_OtherBoosts

\* a market query in which the token extractor found tokens, and a dapp boost
C16_Witness ==
    /\ Detected
    /\ locals.tokens # <<>> /\ isMarketQuery(toLowerCase(query))
    /\ locals.scores["token"] = locals.keywordScores["token"]
    /\ locals.dapps # <<>>
    /\ locals.scores["dapp"] = locals.keywordScores["dapp"] + (4 * ScoreUnit) \div 10

(***************************************************************************)
(* Properties of the extractors                                            *)
(***************************************************************************)
NoDuplicates(list) == \A i, j \in 1..Len(list) : i # j => list[i] # list[j]
\* an optional list is absent or has elements
AbsentOrFilled(optionalList) == optionalList = Undefined \/ optionalList[1] # <<>>
\* some DApp name of the table is part of the lower-cased query
C17_NamesADapp ==
    \E d \in 1..Len(DAPP_PROTOCOLS) :
        \E i \in 1..(Len(query) - Len(DAPP_PROTOCOLS[d]) + 1) :
            \A k \in 1..Len(DAPP_PROTOCOLS[d]) : LowerChar(query[i + k - 1]) = DAPP_PROTOCOLS[d][k]
\* the query holds 44 characters in a row of the class the wallet pattern accepts
C17_HoldsAWallet ==
    \E i \in 1..(Len(query) - 43) :
        \A k \in 0..43 :
            query[i + k] \in ((DigitChars \cup UpperChars) \ {"0", "I", "O"})

\* C17: the token, wallet and DApp lists the extractors return have no duplicate
\* element, and they are empty when nothing in the query matches, in which case the
\* DetectedIntent carries the field as absent.
C17_ListsAreSetsAndAbsentWhenEmpty ==
    pc = "detected" =>
        /\ NoDuplicates(locals.tokens) /\ NoDuplicates(locals.wallets)
        /\ NoDuplicates(locals.dapps)
        /\ ~C17_NamesADapp => locals.dapps = <<>>
        /\ ~C17_HoldsAWallet => locals.wallets = <<>>
        /\ query = <<>> => locals.tokens = <<>>
        /\ AbsentOrFilled(intent.tokens) /\ AbsentOrFilled(intent.wallets)
        /\ AbsentOrFilled(intent.dapps)
        /\ locals.tokens = <<>> => intent.tokens = Undefined
        /\ locals.wallets = <<>> <=> intent.wallets = Undefined
        /\ locals.dapps = <<>> <=> intent.dapps = Undefined

\* the same address twice in the query, once in the token and in the wallet list
C17_Witness ==
    /\ pc = "detected"
    /\ query = Phrases[6] \o <<" ">> \o Phrases[6]
    /\ locals.wallets = << Phrases[6] >>
    /\ locals.tokens = << Phrases[6] >>
    /\ intent.dapps = Undefined

\* C18: no element of the token list extractTokens returns, and hence of the tokens
\* of the DetectedIntent, is a word of the stopword list, also when a stopword in
\* lower case directly precedes token, coin, price, chart, data, current or cost.
C18_NoStopwordAmongTokens ==
    Detected =>
        /\ \A i \in 1..Len(locals.tokens) :
              \A w \in 1..Len(ExcludeWords) : locals.tokens[i] # ExcludeWords[w]
        /\ intent.tokens # Undefined =>
              \A i \in 1..Len(intent.tokens[1]) :
                  \A w \in 1..Len(ExcludeWords) : intent.tokens[1][i] # ExcludeWords[w]

\* the query without the white space around it
C19_Blank(c) == c \in {" ", "\t", "\n", "\r"}
C19_Inked == { i \in 1..Len(query) : ~C19_Blank(query[i]) }
C19_Trimmed ==
    IF C19_Inked = {} THEN <<>>
    ELSE SubSeq(query, CHOOSE i \in C19_Inked : \A j \in C19_Inked : i <= j,
                       CHOOSE i \in C19_Inked : \A j \in C19_Inked : i >= j)
C19_LettersOnly(w) == \A i \in 1..Len(w) : w[i] \in (UpperChars \cup LowerChars)
C19_UpperCased(w) == [ i \in 1..Len(w) |-> UpperChar(w[i]) ]

\* C19 as stated: when the trimmed query consists of letters only and is at most 15
\* characters long (a query of letters only holds no other token), extractTokens
\* returns the upper-cased trimmed query as the single token.
C19_ShortWordIsTheToken ==
    (pc = "detected" /\ Len(C19_Trimmed) >= 1 /\ Len(C19_Trimmed) <= 15
        /\ C19_LettersOnly(C19_Trimmed))
      => locals.tokens = << C19_UpperCased(C19_Trimmed) >>

\* C19 amended: when the trimmed query consists of 2 to 10 letters and nothing
\* else, extractTokens returns the upper-cased trimmed query as the single token;
\* a single letter and a word of 11 to 15 letters yield no token.
C19_WordOfTwoToTenLettersIsTheToken ==
    (pc = "detected" /\ Len(C19_Trimmed) >= 1 /\ Len(C19_Trimmed) <= 15
        /\ C19_LettersOnly(C19_Trimmed))
      => locals.tokens = (IF Len(C19_Trimmed) >= 2 /\ Len(C19_Trimmed) <= 10
                          THEN << C19_UpperCased(C19_Trimmed) >> ELSE <<>>)

\* a short word typed with blanks around it
C19_Witness ==
    /\ pc = "detected"
    /\ query # C19_Trimmed
    /\ Len(C19_Trimmed) >= 2 /\ C19_LettersOnly(C19_Trimmed)
    /\ locals.tokens = << C19_UpperCased(C19_Trimmed) >>

(***************************************************************************)
(* Properties of analyzeExpertise: the returned list                       *)
(***************************************************************************)
\* the holdings that carry a category and the value they sum to
C20_Holders(c) == { i \in DOMAIN holdings : c \in Range(holdings[i].categories) }
C20_HeldValue(c) == C5_Sum([i \in DOMAIN holdings |-> holdings[i].value], C20_Holders(c))
\* the returned list is the (up to) 3 categories of highest value, highest first
C20_TopThreeBy(value(_)) ==
    /\ Len(expertise) = (IF Cardinality(C5_Categories) < 3 THEN Cardinality(C5_Categories) ELSE 3)
    /\ Range(expertise) \subseteq C5_Categories
    /\ NoDuplicates(expertise)
    /\ \A i, j \in 1..Len(expertise) : i < j => value(expertise[i]) >= value(expertise[j])
    /\ \A c \in C5_Categories \ Range(expertise) :
          \A i \in 1..Len(expertise) : value(c) <= value(expertise[i])
C20_Returns(passing, value(_)) ==
    /\ expertise # <<>>
    /\ passing # {} => (Range(expertise) = passing /\ NoDuplicates(expertise))
    /\ (passing = {} /\ C5_Categories # {}) => C20_TopThreeBy(value)
    /\ (expertise = <<"Diversified Portfolio">>) <=> (C5_Categories = {})

C20_NoRepeatedEntry ==
    \A i \in DOMAIN holdings : NoDuplicates(holdings[i].categories)
C20_ExpertiseByHoldingsOfDistinctEntries ==
    (pc = "expertiseDone" /\ C20_NoRepeatedEntry) =>
        C20_Returns({ c \in C5_Categories :
                        C20_HeldValue(c) * 5 > C5_Total \/ Cardinality(C20_Holders(c)) >= 3 },
                    C20_HeldValue)

\* the confidence categorizeWallet assigns with each category
C23_ConfidenceOf ==
    [ c \in WalletCategory |->
        CASE c = "Whale" -> 90
          [] c = "HODLer" -> 80
          [] c = "Bot" -> 75
          [] c = "Smart Trader" -> 75
          [] c = "Degen" -> 70
          [] c = "Casual" -> 0 ]

\* C23: categorizeWallet returns confidence 0 and an empty reasoning exactly when
\* the category is Casual; the confidence is one of 0, 70, 75, 80, 90 and is a
\* function of the category alone.
C23_ConfidenceFollowsCategory ==
    pc = "profiled" =>
        /\ (profile.confidence = 0 /\ profile.reasoning.text = "")
              <=> profile.category = "Casual"
        /\ profile.category = "Casual"
              => (profile.confidence = 0 /\ profile.reasoning.text = "")
        /\ profile.category # "Casual"
              => (profile.confidence # 0 /\ profile.reasoning.text # "")
        /\ profile.confidence \in {0, 70, 75, 80, 90}
        /\ profile.category \in WalletCategory
        /\ profile.confidence = C23_ConfidenceOf[profile.category]

\* a wallet no rule matches: Active, 25 transactions, score 50
C23_Witness ==
    /\ pc = "profiled"
    /\ data.portfolioValue <= 1000000
    /\ data.tradingFrequency = "Active"
    /\ data.diversificationScore >= 40
    /\ data.totalTransactions <= 30
    /\ profile.category = "Casual"
    /\ profile.confidence = 0
    /\ profile.reasoning.text = ""

\* C27: category Bot or Degen implies riskProfile Aggressive, and category
\* Smart Trader implies a riskProfile other than Aggressive.
C27_CategoryBoundsRisk ==
    pc = "profiled" =>
        /\ profile.category \in {"Bot", "Degen"} => profile.riskProfile = "Aggressive"
        /\ profile.category = "Smart Trader" => profile.riskProfile # "Aggressive"

\* a Degen whose score lies between the bot threshold and the degen threshold
C27_Witness ==
    /\ pc = "profiled"
    /\ profile.category = "Degen"
    /\ data.diversificationScore >= 30
    /\ profile.riskProfile = "Aggressive"

\* the half of C24 that ties a present pair to the type, and the alertType half
C24_PairGivesTypeAndAlertTypeNeedsAlert ==
    Detected =>
        /\ intent.comparison # Undefined => intent.type = "comparison"
        /\ intent.alertType # Undefined => intent.type = "alert"

\* C24: in every DetectedIntent the comparison field is present if and only if the
\* type is comparison, and alertType is present only if the type is alert.
C24_ComparisonFieldIffComparisonType ==
    Detected =>
        /\ intent.comparison # Undefined <=> intent.type = "comparison"
        /\ intent.alertType # Undefined => intent.type = "alert"

\* the query is one run of 44 upper-case base58 characters
C25_AddressOnly ==
    /\ Len(query) = 44
    /\ \A i \in 1..Len(query) : query[i] \in C3_Base58Alphabet \ LowerChars
\* the lower-cased query holds no intent keyword, DApp name or market-query marker
C25_NothingButTheAddress ==
    /\ \A c \in Categories : locals.keywordScores[c] = 0
    /\ locals.dapps = <<>>
    /\ ~isMarketQuery(toLowerCase(query))
C25_WalletsAreTokens ==
    /\ Range(locals.wallets) \subseteq Range(locals.tokens)
    /\ (~isMarketQuery(toLowerCase(query))
            /\ locals.scores["wallet"] # locals.keywordScores["wallet"])
          => locals.scores["token"] # locals.keywordScores["token"]
C25_TokenNotWallet ==
    /\ intent.type = "token"
    /\ pc = "planned" =>
          fetches = << [endpoint |-> "/api/zerion/token-search", param |-> "query",
                        value |-> query] >>

\* C25 as stated: every address extractWallets returns is also returned by
\* extractTokens, so outside market queries the wallet boost never comes without
\* the token boost; and every query that is only a 44-character upper-case base58
\* address is classified token and planned as one token-search fetch.
C25_AddressOnlyQueryIsToken ==
    Detected =>
        /\ C25_WalletsAreTokens
        /\ C25_AddressOnly => C25_TokenNotWallet

\* C25 amended: as stated, the classification holding for the addresses whose lower
\* case contains no intent keyword, no DApp name and no market-query marker.
C25_PlainAddressOnlyQueryIsToken ==
    Detected =>
        /\ C25_WalletsAreTokens
        /\ (C25_AddressOnly /\ C25_NothingButTheAddress) => C25_TokenNotWallet

\* a plain address, extracted as wallet and as token, tied at 0.3 and planned as token
C25_Witness ==
    /\ pc = "planned"
    /\ C25_AddressOnly /\ C25_NothingButTheAddress
    /\ locals.wallets = << query >> /\ locals.tokens = << query >>
    /\ locals.scores["wallet"] = locals.scores["token"]
    /\ locals.scores["token"] = (3 * ScoreUnit) \div 10
    /\ intent.type = "token"
    /\ Len(fetches) = 1 /\ fetches[1].endpoint = "/api/zerion/token-search"

(***************************************************************************)
(* Properties of the wallet analysis                                       *)
(***************************************************************************)
\* calculateWalletMetrics has returned
Analysed == pc = "analysed" \/ (pc = "responded" /\ response.status = 200)

\* the positions handed to calculateWalletMetrics and their total value
C21_Positions == IF results.positions = Undefined THEN <<>> ELSE results.positions[1]
RECURSIVE C21_Sum(_, _)
C21_Sum(f(_), S) ==
    IF S = {} THEN 0 ELSE LET x == CHOOSE y \in S : TRUE IN f(x) + C21_Sum(f, S \ {x})
C21_ValueAt(i) == C21_Positions[i].value
C21_Total == C21_Sum(C21_ValueAt, DOMAIN C21_Positions)
C21_Positive == { i \in DOMAIN C21_Positions : C21_ValueAt(i) > 0 }
\* the sets of (at most) three largest positive-valued positions
C21_LargestThree ==
    { T \in SUBSET C21_Positive :
        /\ Cardinality(T) = Min(3, Cardinality(C21_Positive))
        /\ \A i \in T, j \in C21_Positive \ T : C21_ValueAt(i) >= C21_ValueAt(j) }
C21_Score == analysis.portfolio.diversification.diversificationScore

\* C21: the diversification score equals max(0, 100 - the sum of the percentages
\* of the three largest positive-valued holdings), a percentage being value / total
\* * 100 when the total is positive and 0 otherwise; it lies within 0..100 for all
\* position values, zero totals and negative positions included; and
\* analyzeTradingBehavior reports the same value as categoryDiversification.
C21_ScoreIsFlooredComplementOfTopThree ==
    Analysed =>
        /\ \A T \in C21_LargestThree :
              IF C21_Total > 0
              THEN C21_Score * C21_Total
                      = Max(0, 100 * C21_Total - 100 * C21_Sum(C21_ValueAt, T))
              ELSE C21_Score = 100
        /\ C21_LargestThree # {}
        /\ C21_Score \in 0..100
        /\ analysis.behavior.riskMetrics.categoryDiversification = C21_Score

\* a negative position lifts the percentages of the holdings above 100
C21_Witness ==
    /\ Analysed
    /\ \E i \in DOMAIN C21_Positions : C21_ValueAt(i) < 0
    /\ C21_Total > 0
    /\ \E i \in DOMAIN analysis.portfolio.topHoldings :
          analysis.portfolio.topHoldings[i].percentage > 100
    /\ C21_Score = 0
    /\ analysis.behavior.riskMetrics.categoryDiversification = 0

\* a portfolio whose positions cancel out: no percentage is taken, the score is 100
C21_ZeroTotal ==
    /\ Analysed
    /\ C21_Positive # {} /\ C21_Total = 0
    /\ C21_Score = 100

\* the page of transactions the upstream returned
C26_Page == IF results.transactions = Undefined THEN <<>> ELSE results.transactions[1]

\* C26: totalTransactions is the length of the one transactions page, and as long
\* as the upstream returns at most 20 transactions the profile category is never
\* Bot and never Smart Trader: it is Whale, Degen, HODLer or Casual.
C26_OnePageNeverBotNorSmartTrader ==
    Analysed =>
        /\ analysis.trading.totalTransactions = Len(C26_Page)
        /\ Len(C26_Page) <= TransactionsPageSize =>
              /\ analysis.profile.category \notin {"Bot", "Smart Trader"}
              /\ analysis.profile.category \in {"Whale", "Degen", "HODLer", "Casual"}

\* a full page of a very active, concentrated wallet: Degen, where more than 100
\* transactions would make it a Bot
C26_Witness ==
    /\ Analysed
    /\ Len(C26_Page) = 20
    /\ analysis.trading.tradingFrequency = "Very Active"
    /\ analysis.portfolio.diversification.diversificationScore < 30
    /\ analysis.portfolio.totalValue <= 1000000
    /\ analysis.profile.category = "Degen"

\* a well spread wallet with a full page: Casual, where more than 30 transactions
\* would make it a Smart Trader
C26_SpreadWalletIsCasual ==
    /\ Analysed
    /\ Len(C26_Page) = 20
    /\ analysis.portfolio.diversification.diversificationScore > 60
    /\ analysis.profile.category = "Casual"

\* an upstream that ignores the page size: Bot and Smart Trader are reached
C26_BeyondThePage ==
    /\ Analysed
    /\ Len(C26_Page) > 20
    /\ analysis.profile.category \in {"Bot", "Smart Trader"}

\* the value the handler holds for a request: its body when it was answered OK
\* with JSON, null for that request otherwise
C22_ValueOf(outcome, body) == IF outcome = "ok" THEN Some(body) ELSE Undefined
C22_Values ==
    [ portfolio |-> C22_ValueOf(upstream.portfolio, "portfolio"),
      pnl |-> C22_ValueOf(upstream.pnl, SamplePnl),
      positions |-> C22_ValueOf(upstream.positions, SamplePositions),
      transactions |-> C22_ValueOf(upstream.transactions, SampleTransactions),
      chart30d |-> C22_ValueOf(upstream.chart30d, SampleChart),
      chart7d |-> C22_ValueOf(upstream.chart7d, SampleChart) ]

\* C22: each failing request of the six is replaced by null, for that request
\* only; for every subset of failing requests, all six included, the handler
\* computes the analysis from the remaining data and answers with success, never
\* with the 500 response.
C22_FailuresBecomeNullAndTheHandlerSucceeds ==
    upstream.address # Undefined =>
        /\ response.status # 500
        /\ pc \in {"calculateWalletMetrics", "analysed", "responded"} => results = C22_Values
        /\ pc \in {"analysed", "responded"} => analysis = calculateWalletMetrics(C22_Values)
        /\ pc = "responded" =>
              /\ response.status = 200 /\ response.success
              /\ response.data = Some(analysis)

\* all six requests fail, each in its own way, and the handler answers with success
C22_Witness ==
    /\ pc = "responded"
    /\ upstream.address # Undefined
    /\ upstream.portfolio = "notOk" /\ upstream.pnl = "rejected"
    /\ upstream.positions = "notOk" /\ upstream.transactions = "rejected"
    /\ upstream.chart30d = "badJson" /\ upstream.chart7d = "notOk"
    /\ results = NoResults
    /\ response.status = 200 /\ response.success
    /\ response.data = Some(calculateWalletMetrics(NoResults))

\* a request without an address is answered 400 before any upstream request
C22_NoAddress == (pc = "responded" /\ upstream.address = Undefined) => response.status = 400

(***************************************************************************)
(* Properties of EnhancedChat                                              *)
(***************************************************************************)
\* the panel is rendered with an intent
PanelShown == pc = "chat" /\ chat.showPanel /\ chat.currentIntent # Undefined

\* C28: whenever the panel is shown with a non-null currentIntent, the panel
\* data it displays was fetched for that same intent; a fetch started for an
\* earlier message never stands in for the data of the current intent.
C28_ShownDataWasFetchedForTheShownIntent ==
    PanelShown /\ chat.panelData # Undefined
        => chat.panelData[1].intent = chat.currentIntent[1]

\* never: both messages started a panel fetch and both got a reply, the fetch
\* of the first message settled last, and the panel of the second message
\* shows the data of the first with nothing left in flight to replace it
C28_StaleDataStays ==
    ~(/\ PanelShown
      /\ inflight = {}
      /\ Len(posted) = 2
      /\ posted[2].intent = chat.currentIntent
      /\ PanelFetches(posted[2].intent, 2) # {}
      /\ chat.messages[2] = AssistantMessage /\ chat.messages[4] = AssistantMessage
      /\ chat.panelData # Undefined
      /\ chat.panelData[1].message = 1
      /\ chat.panelData[1].intent # chat.currentIntent[1])

\* C29: the jupiterData of a chat request is the panel data as it was before
\* the message's own panel fetch was started, so it is never the data fetched
\* for the message being sent, and it is undefined for the first message.
C29_RequestCarriesThePanelDataOfBefore ==
    [][Len(posted') = Len(posted) + 1 =>
          LET body == posted'[Len(posted')]
          IN  /\ body.jupiterData = chat.panelData
              /\ body.jupiterData # Undefined => body.jupiterData[1].message < body.message
              /\ Len(posted) = 0 => body.jupiterData = Undefined]_vars

\* a second message was posted with the data fetched for the first one while
\* its own panel fetch is pending
C29_Witness ==
    /\ pc = "chat"
    /\ Len(posted) = 2
    /\ posted[2].jupiterData # Undefined
    /\ posted[1].jupiterData = Undefined
    /\ \E request \in inflight : request.kind = "panel" /\ request.message = 2

(***************************************************************************)
(* Properties of POST /api/claude/stream                                   *)
(***************************************************************************)
AssistantRows == { i \in 1..Len(chatHistory) : chatHistory[i].role = "assistant" }
UserRows == { i \in 1..Len(chatHistory) : chatHistory[i].role = "user" }

RECURSIVE JoinChunks(_)
JoinChunks(chunks) ==
    IF chunks = <<>> THEN <<>> ELSE Head(chunks) \o JoinChunks(Tail(chunks))

\* every chunk of the model stream has been enqueued, in order
AllChunksEnqueued ==
    /\ Len(stream.enqueued) = Len(streamRequest.model.chunks)
    /\ \A i \in 1..Len(stream.enqueued) :
          stream.enqueued[i] = encode(streamRequest.model.chunks[i])

C30_Ordering ==
    pc # "POST" =>
      \* the user message is saved before a stream exists or a chunk is enqueued
      /\ (stream.state # "none" \/ stream.enqueued # <<>>) =>
             /\ chatHistory # <<>>
             /\ chatHistory[1] = ChatRow(streamRequest, "user", streamRequest.message)
      \* at most one assistant row, written after every chunk was enqueued and
      \* holding the chunks in order
      /\ Cardinality(AssistantRows) <= 1
      /\ \A i \in AssistantRows :
             /\ AllChunksEnqueued
             /\ chatHistory[i].content = JoinChunks(streamRequest.model.chunks)
      \* a closed stream has its assistant row
      /\ stream.state = "closed" => AssistantRows # {}
      \* a failure of the model stream or of the save is never followed by a close
      /\ (streamRequest.model.throws \/ streamRequest.assistantSaveFails) =>
             /\ stream.state # "closed"
             /\ (pc = "finished" => stream.state = "errored")
      \* a failed save of the user message starts no stream and is answered 500
      /\ (streamRequest.parses /\ ~MissingField(streamRequest) /\ streamRequest.userSaveFails) =>
             /\ stream = NoStream
             /\ chatHistory = EmptyHistory
             /\ response = StreamServerError

\* the step that saves the assistant row finds the stream open and leaves it open
C30_SavedBeforeClose ==
    Len(chatHistory') > Len(chatHistory) /\ chatHistory'[Len(chatHistory')].role = "assistant"
        => stream.state = "readable" /\ stream'.state = "readable"

\* C30: the user message is saved before any chunk is streamed; the assistant
\* message is saved at most once, after every chunk was enqueued and before
\* the stream is closed, with the chunks concatenated in order as content; a
\* failing model stream or save leaves the stream in the error state, never
\* closed; a failing save of the user message starts no stream and returns 500.
C30_SavesAroundTheStream == []C30_Ordering /\ [][C30_SavedBeforeClose]_vars

\* a stream of two different chunks was saved and closed
C30_Witness ==
    /\ pc = "finished"
    /\ stream.state = "closed"
    /\ Len(streamRequest.model.chunks) = 2
    /\ streamRequest.model.chunks[1] # streamRequest.model.chunks[2]
    /\ AssistantRows = {2}
    /\ UserRows = {1}

\* a stream that was opened ended in the error state after chunks were enqueued
C30_FailedStream ==
    ~(pc = "finished" /\ stream.state = "errored" /\ stream.enqueued # <<>>
      /\ AssistantRows = {})

====
